---- MODULE Spec2Model ----
(***************************************************************************)
(* Job queue, dispatch and manual execution of the agentic workflow        *)
(* engine (backend/app/agentic).                                           *)
(*                                                                         *)
(* The database is a set of rows; every coroutine works on the copy its    *)
(* own SQLAlchemy session loaded (expire_on_commit=False, database.py:30)  *)
(* and a commit writes the attributes the coroutine assigned.  Every       *)
(* `await` of a handler is a point where other coroutines run, so a        *)
(* handler is one action per stretch of code between two awaits.           *)
(* Timestamps are modelled by whether they are set.                        *)
(*                                                                         *)
(* Further specifications over the same variables follow the queue: one    *)
(* run of the executor (SpecExec), one call of the trigger evaluator       *)
(* (SpecTrig), the ticks of the scheduler loop (SpecTick), start and stop  *)
(* of the loop (SpecLoop), the order nodes (SpecOrder) and the memory      *)
(* nodes (SpecState).  There the time of a tick matters and a datetime is  *)
(* an integer.  SpecChain runs the executor over nodes arrays whose ids    *)
(* repeat, SpecDelete puts delete_workflow beside the queue, and SpecLive  *)
(* and SpecExecFair state what the event loop guarantees to run.           *)
(***************************************************************************)
EXTENDS Integers, Sequences, FiniteSets, TLC

\* ---- bounds of the model ----
MaxJobs == 2          \* JobQueue rows ever inserted
MaxExecs == 2         \* WorkflowExecution rows ever inserted
MaxReq == 1           \* distinct cancel / retry requests in flight at once
MaxNodes == 3         \* nodes of the workflow one executor runs
MaxEdges == 2         \* connections of that workflow
MaxFaults == 2        \* database calls of one run that raise

\* ---- program constants ----
DefaultMaxRetries == 3

\* the rows the database holds at the start: two users, one workflow each,
\* one schedule per workflow
Users == {1, 2}
Workflows == {1, 2}
SchedIds == {1, 2}
JobIds == 1..MaxJobs

None == "None"
Statuses == {"pending", "running", "completed", "failed", "cancelled"}

\* Workflow.user_id
OwnerOf(w) == w
\* ScheduledJob.workflow_id
SchedWorkflow(s) == s

NoRow == [workflow_id |-> 0, user_id |-> 0, status |-> None, priority |-> 0,
          retry_count |-> 0, max_retries |-> 0, scheduled_at |-> FALSE,
          started_at |-> FALSE, completed_at |-> FALSE, error_message |-> None]

IdleTask == [pc |-> "none", job |-> NoRow, execution |-> 0]
IdleTick == [pc |-> "idle", sj |-> 0, existing |-> 0]

VARIABLES
    jobs,           \* table job_queue: sequence of rows, index = id
    sched,          \* table scheduled_jobs: id -> row
    execs,          \* table workflow_executions: sequence of rows, index = id
    task,           \* per queue entry: the execute_queued_job task created for it
    tick,           \* the scheduler loop's position inside queue_job
    req,            \* cancel_job / retry_job requests between select and commit
    resp,           \* status of the last response of cancel_job / retry_job
    cancelledEver,  \* history: entries on which cancel_job has succeeded
    workflows,      \* table workflows: the ids of the rows it holds
    wf,             \* the Workflow row a WorkflowExecutor was constructed with
    executionRow,   \* the workflow_executions row of that executor's run
    logs,           \* table node_execution_logs of that run, in insertion order
    ex,             \* the executor: position in execute, node_outputs, result
    trig,           \* one call of should_execute: its inputs and what it returned
    check,          \* the scheduler loop inside check_and_execute_jobs, with its tables
    loop,           \* WorkflowScheduler.running, the calls of start and stop, the tasks
    order,          \* one call of an order node's execute and the broker calls it made
    states          \* table workflow_states and the memory nodes reading and writing it

queueVars == <<jobs, sched, execs, task, tick, req, resp, cancelledEver, workflows>>
execVars == <<wf, executionRow, logs, ex>>
otherVars == <<trig, check, loop, order, states>>
vars == <<jobs, sched, execs, task, tick, req, resp, cancelledEver, workflows,
          wf, executionRow, logs, ex, trig, check, loop, order, states>>

\* JSON objects are sets of <<key, value>> pairs; None and {} are both {}
EmptyDict == {}
NoWorkflow == [nodes |-> <<>>, connections |-> {}]
NoExecution == [status |-> "none", completed_at |-> FALSE, error_message |-> None,
                execution_data |-> <<>>]
IdleExecutor == [pc |-> "idle", i |-> 0, node_outputs |-> <<>>, log |-> 0,
                 result |-> [success |-> FALSE, output |-> EmptyDict, error |-> None,
                             propagated |-> FALSE],
                 raised |-> FALSE, e |-> None, faults |-> 0, invoked |-> <<>>]

\* the variables of the other specifications while they are not in use
NoCall == [pc |-> "idle"]
OthersIdle ==
    /\ trig = NoCall
    /\ check = NoCall
    /\ loop = NoCall
    /\ order = NoCall
    /\ states = NoCall

Active(j) == jobs[j].status \in {"pending", "running"}
ActiveOf(w) == {j \in DOMAIN jobs : jobs[j].workflow_id = w /\ Active(j)}
ExecsOf(j) == {e \in DOMAIN execs : execs[e].job = j}
RunningExecs(w) == {e \in DOMAIN execs : execs[e].workflow_id = w /\ execs[e].status = "running"}

Init ==
    /\ jobs = <<>>
    /\ sched = [s \in SchedIds |-> [workflow_id |-> SchedWorkflow(s),
                                    user_id |-> OwnerOf(SchedWorkflow(s)),
                                    last_run |-> FALSE, run_count |-> 0]]
    /\ execs = <<>>
    /\ task = [j \in JobIds |-> IdleTask]
    /\ tick = IdleTick
    /\ req = {}
    /\ resp = None
    /\ cancelledEver = {}
    /\ workflows = Workflows
    /\ wf = NoWorkflow
    /\ executionRow = NoExecution
    /\ logs = <<>>
    /\ ex = IdleExecutor
    /\ OthersIdle


\* A commit of a session: the UPDATE carries the attributes whose assigned
\* value differs from the value the session loaded, and the ones assigned
\* datetime.utcnow() (stamped); the other columns keep the database's value.
Flush(row, loaded, assigned, stamped) ==
    [f \in DOMAIN row |->
        IF f \in stamped \/ assigned[f] # loaded[f] THEN assigned[f] ELSE row[f]]

\* ------------------------------------------------------------------------
\* WorkflowScheduler.queue_job (engine/scheduler.py:155-190)
\* ------------------------------------------------------------------------

\* a select that forgets the running rows
ExistingJobsPendingOnly(w) == {j \in DOMAIN jobs : jobs[j].workflow_id = w
                                                   /\ jobs[j].status = "pending"}

\* the select of the rows of the workflow with status pending or running
ExistingJobs(w) == {j \in DOMAIN jobs : jobs[j].workflow_id = w
                                        /\ jobs[j].status \in {"pending", "running"}}

NewQueueRow(s) ==
    [workflow_id |-> sched[s].workflow_id, user_id |-> sched[s].user_id,
     status |-> "pending", priority |-> 0, retry_count |-> 0,
     max_retries |-> DefaultMaxRetries, scheduled_at |-> TRUE,
     started_at |-> FALSE, completed_at |-> FALSE, error_message |-> None]

\* lines 159-163: the tick found schedule s due and awaits the select
\* (the bound on the rows stops only a call that would insert)
QueueJobSelect(s) ==
    /\ tick.pc = "idle"
    /\ Len(jobs) < MaxJobs \/ ExistingJobs(sched[s].workflow_id) # {}
    /\ tick' = [pc |-> "checked", sj |-> s,
                existing |-> Cardinality(ExistingJobs(sched[s].workflow_id))]
    /\ UNCHANGED <<jobs, sched, execs, task, req, resp, cancelledEver>>

\* lines 164-190: one row found: return; several: scalar_one_or_none raises
\* (caught at line 60); none: insert, update the schedule, commit, create_task
QueueJobCommit ==
    /\ tick.pc = "checked"
    /\ tick' = IdleTick
    /\ IF tick.existing > 0
       THEN UNCHANGED <<jobs, sched, task>>
       ELSE /\ jobs' = Append(jobs, NewQueueRow(tick.sj))
            /\ sched' = [sched EXCEPT ![tick.sj].last_run = TRUE,
                                      ![tick.sj].run_count = @ + 1]
            /\ task' = [task EXCEPT ![Len(jobs) + 1] = [IdleTask EXCEPT !.pc = "read"]]
    /\ UNCHANGED <<execs, req, resp, cancelledEver>>

\* ------------------------------------------------------------------------
\* WorkflowExecutor.execute (engine/executor.py:116-172)
\* ------------------------------------------------------------------------

\* lines 128-136: the execution row, status running (job: the queue entry
\* whose dispatch called the executor, 0 for the manual endpoint)
NewExecution(w, j) == [workflow_id |-> w, status |-> "running", error_message |-> None, job |-> j]

\* lines 152-160 (ok) and 162-172 (a node or a write raised)
FinishExecution(row, ok) ==
    IF ok THEN [row EXCEPT !.status = "completed"]
          ELSE [row EXCEPT !.status = "failed", !.error_message = "node error"]

\* ------------------------------------------------------------------------
\* WorkflowScheduler.execute_queued_job (engine/scheduler.py:192-249)
\* ------------------------------------------------------------------------

\* a dispatch that does not test the status
DispatchableAnyStatus(j) == j \in DOMAIN jobs

\* line 201
Dispatchable(j) == j \in DOMAIN jobs /\ jobs[j].status = "pending"

\* lines 205-206
MarkRunning(job) == [job EXCEPT !.status = "running", !.started_at = TRUE]

\* lines 224-228
MarkResult(job, execution) ==
    LET a == [job EXCEPT !.status = IF execution.status = "completed"
                                    THEN "completed" ELSE "failed",
                         !.completed_at = TRUE]
    IN IF execution.error_message # None
       THEN [a EXCEPT !.error_message = execution.error_message]
       ELSE a

\* a handler that counts a failure twice
MarkFailedCountedTwice(job, exc) ==
    [job EXCEPT !.status = "failed", !.completed_at = TRUE,
                !.error_message = exc, !.retry_count = @ + 2]

\* lines 238-241
MarkFailed(job, exc) ==
    [job EXCEPT !.status = "failed", !.completed_at = TRUE,
                !.error_message = exc, !.retry_count = @ + 1]

\* a handler that never re-dispatches
ShouldRetryNever(job) == FALSE

\* line 246
ShouldRetry(job) == job.retry_count < job.max_retries

\* lines 194-206: load the row; return unless it is pending; assign running.
\* The task is new (line 190) or has slept and calls itself (lines 248-249).
DispatchRead(j) ==
    /\ task[j].pc \in {"read", "sleep"}
    /\ IF Dispatchable(j)
       THEN task' = [task EXCEPT ![j] = [pc |-> "commit_running", job |-> jobs[j],
                                         execution |-> 0]]
       ELSE task' = [task EXCEPT ![j] = [IdleTask EXCEPT !.pc = "done"]]
    /\ UNCHANGED <<jobs, sched, execs, tick, req, resp, cancelledEver>>

\* line 207: commit status running and started_at
DispatchCommitRunning(j) ==
    /\ task[j].pc = "commit_running"
    /\ LET loaded == task[j].job
           assigned == MarkRunning(loaded)
       IN /\ jobs' = [jobs EXCEPT ![j] = Flush(@, loaded, assigned, {"started_at"})]
          /\ task' = [task EXCEPT ![j].pc = "invoke", ![j].job = assigned]
    /\ UNCHANGED <<sched, execs, tick, req, resp, cancelledEver>>

\* lines 234-249: the failure handler commits, then retries or returns
DispatchFailed(j, exc) ==
    LET loaded == task[j].job
        assigned == MarkFailed(loaded, exc)
    IN /\ jobs' = [jobs EXCEPT ![j] = Flush(@, loaded, assigned, {"completed_at"})]
       /\ task' = [task EXCEPT ![j] = IF ShouldRetry(assigned)
                                      THEN [IdleTask EXCEPT !.pc = "sleep"]
                                      ELSE [IdleTask EXCEPT !.pc = "done"]]

\* lines 211-221: the workflow is loaded; missing, line 217 raises into the
\* failure handler; else the executor is called and inserts the execution row
DispatchInvoke(j) ==
    /\ task[j].pc = "invoke"
    /\ IF task[j].job.workflow_id \in workflows
       THEN /\ Len(execs) < MaxExecs
            /\ execs' = Append(execs, NewExecution(task[j].job.workflow_id, j))
            /\ task' = [task EXCEPT ![j].pc = "executing", ![j].execution = Len(execs) + 1]
            /\ jobs' = jobs
       ELSE /\ execs' = execs
            /\ DispatchFailed(j, "Workflow not found")
    /\ UNCHANGED <<sched, tick, req, resp, cancelledEver>>

\* the executor returns the execution (lines 223-232) or raises after it
\* marked the execution failed (lines 234-249)
DispatchExecutorDone(j, ok) ==
    /\ task[j].pc = "executing"
    /\ execs' = [execs EXCEPT ![task[j].execution] = FinishExecution(@, ok)]
    /\ IF ok
       THEN LET loaded == task[j].job
                assigned == MarkResult(loaded, execs'[task[j].execution])
            IN /\ jobs' = [jobs EXCEPT ![j] = Flush(@, loaded, assigned, {"completed_at"})]
               /\ task' = [task EXCEPT ![j] = [IdleTask EXCEPT !.pc = "done"]]
       ELSE DispatchFailed(j, "node error")
    /\ UNCHANGED <<sched, tick, req, resp, cancelledEver>>

\* ------------------------------------------------------------------------
\* execute_workflow, the manual endpoint (routers/execution.py:18-57)
\* ------------------------------------------------------------------------

\* lines 28-45: the owner's workflow is loaded and the executor inserts the row
ExecuteWorkflowStart(w, u) ==
    /\ OwnerOf(w) = u
    /\ w \in workflows
    /\ Len(execs) < MaxExecs
    /\ execs' = Append(execs, NewExecution(w, 0))
    /\ UNCHANGED <<jobs, sched, task, tick, req, resp, cancelledEver>>

\* lines 45-57: the executor returns or raises
ExecuteWorkflowDone(e, ok) ==
    /\ e \in DOMAIN execs
    /\ execs[e].job = 0
    /\ execs[e].status = "running"
    /\ execs' = [execs EXCEPT ![e] = FinishExecution(@, ok)]
    /\ UNCHANGED <<jobs, sched, task, tick, req, resp, cancelledEver>>

\* ------------------------------------------------------------------------
\* cancel_job and retry_job (routers/scheduler.py:338-397)
\* A request between its select and its commit is the record of what it
\* loaded; several requests that loaded the same row are one record, which a
\* commit removes only when it is the last of them.
\* ------------------------------------------------------------------------

\* the select by id and user_id, scalar_one_or_none
FindJob(id, u) == id \in DOMAIN jobs /\ jobs[id].user_id = u

\* a cancel that only refuses cancelled entries
CancellableUnlessCancelled(job) == job.status # "cancelled"

\* line 356
Cancellable(job) == job.status \in {"pending", "running"}

\* a retry that also takes cancelled entries
RetryableOrCancelled(job) == job.status \in {"failed", "cancelled"}

\* line 384
Retryable(job) == job.status = "failed"

InFlight(kind, id) == [kind |-> kind, id |-> id, job |-> jobs[id]]

\* lines 346-357: select, 404, 400
CancelRead(id, u) ==
    /\ Cardinality(req) < MaxReq
    /\ IF ~FindJob(id, u) THEN resp' = "404" /\ req' = req
       ELSE IF ~Cancellable(jobs[id]) THEN resp' = "400" /\ req' = req
       ELSE resp' = resp /\ req' = req \cup {InFlight("cancel", id)}
    /\ UNCHANGED <<jobs, sched, execs, task, tick, cancelledEver>>

\* a cancel that also ends the executions the entry's dispatch has in flight
ExecutionsAfterCancelInterrupted(id) ==
    [e \in DOMAIN execs |->
        IF execs[e].job = id /\ execs[e].status = "running"
        THEN [execs[e] EXCEPT !.status = "failed", !.error_message = "cancelled"]
        ELSE execs[e]]

\* lines 359-363: the handler assigns the entry's status and completed_at and
\* nothing else; the executions are as they were
ExecutionsAfterCancel(id) == execs

\* lines 359-363
CancelCommit(r, last) ==
    /\ r \in req
    /\ r.kind = "cancel"
    /\ LET loaded == r.job
           assigned == [loaded EXCEPT !.status = "cancelled", !.completed_at = TRUE]
       IN jobs' = [jobs EXCEPT ![r.id] = Flush(@, loaded, assigned, {"completed_at"})]
    /\ req' = IF last THEN req \ {r} ELSE req
    /\ resp' = "ok"
    /\ cancelledEver' = cancelledEver \cup {r.id}
    /\ execs' = ExecutionsAfterCancel(r.id)
    /\ UNCHANGED <<sched, task, tick>>

\* lines 374-385
RetryRead(id, u) ==
    /\ Cardinality(req) < MaxReq
    /\ IF ~FindJob(id, u) THEN resp' = "404" /\ req' = req
       ELSE IF ~Retryable(jobs[id]) THEN resp' = "400" /\ req' = req
       ELSE resp' = resp /\ req' = req \cup {InFlight("retry", id)}
    /\ UNCHANGED <<jobs, sched, execs, task, tick, cancelledEver>>

\* lines 387-397
RetryCommit(r, last) ==
    /\ r \in req
    /\ r.kind = "retry"
    /\ LET loaded == r.job
           assigned == [loaded EXCEPT !.status = "pending", !.retry_count = 0,
                                      !.error_message = None, !.started_at = FALSE,
                                      !.completed_at = FALSE, !.scheduled_at = TRUE]
       IN jobs' = [jobs EXCEPT ![r.id] = Flush(@, loaded, assigned, {"scheduled_at"})]
    /\ req' = IF last THEN req \ {r} ELSE req
    /\ resp' = "ok"
    /\ UNCHANGED <<sched, execs, task, tick, cancelledEver>>

\* ------------------------------------------------------------------------
Next ==
    \/ \E s \in SchedIds : QueueJobSelect(s) /\ UNCHANGED <<execVars, otherVars, workflows>>
    \/ QueueJobCommit /\ UNCHANGED <<execVars, otherVars, workflows>>
    \/ \E j \in JobIds : DispatchRead(j) /\ UNCHANGED <<execVars, otherVars, workflows>>
    \/ \E j \in JobIds : DispatchCommitRunning(j) /\ UNCHANGED <<execVars, otherVars, workflows>>
    \/ \E j \in JobIds : DispatchInvoke(j) /\ UNCHANGED <<execVars, otherVars, workflows>>
    \/ \E j \in JobIds, ok \in BOOLEAN : DispatchExecutorDone(j, ok) /\ UNCHANGED <<execVars, otherVars, workflows>>
    \/ \E w \in Workflows, u \in Users : ExecuteWorkflowStart(w, u) /\ UNCHANGED <<execVars, otherVars, workflows>>
    \/ \E e \in 1..MaxExecs, ok \in BOOLEAN : ExecuteWorkflowDone(e, ok) /\ UNCHANGED <<execVars, otherVars, workflows>>
    \/ \E id \in JobIds, u \in Users : CancelRead(id, u) /\ UNCHANGED <<execVars, otherVars, workflows>>
    \/ \E r \in req, last \in BOOLEAN : CancelCommit(r, last) /\ UNCHANGED <<execVars, otherVars, workflows>>
    \/ \E id \in JobIds, u \in Users : RetryRead(id, u) /\ UNCHANGED <<execVars, otherVars, workflows>>
    \/ \E r \in req, last \in BOOLEAN : RetryCommit(r, last) /\ UNCHANGED <<execVars, otherVars, workflows>>

Spec == Init /\ [][Next]_vars

TypeOK ==
    /\ Len(jobs) <= MaxJobs
    /\ \A j \in DOMAIN jobs : jobs[j].status \in Statuses
    /\ Len(execs) <= MaxExecs

\* ------------------------------------------------------------------------
\* engine/executor.py, nodes/base.py: one run of WorkflowExecutor.execute
\* ------------------------------------------------------------------------
\* A call of the database (commit, refresh) either succeeds or raises and
\* leaves the tables as they were; at most MaxFaults calls of a run raise.
\* Node ids are the positions of the nodes array (ids are only names), so
\* the array order is 1, 2, ... and the connections carry every direction.
RegisteredType == "RSI"
UnknownType == "Bogus"
NODE_REGISTRY == {RegisteredType}
Handles == {None, "in"}

RECURSIVE SubsetsUpTo(_, _)
SubsetsUpTo(S, k) ==
    IF k = 0 THEN {{}}
    ELSE LET P == SubsetsUpTo(S, k - 1) IN P \cup {p \cup {x} : p \in P, x \in S}

ConnectionsOn(n) ==
    {c \in [source : 1..n, target : 1..n, targetHandle : Handles] : c.source # c.target}

\* the workflows an executor is given: u is the first node whose type is not
\* registered (0: none); the run never looks at a node after that one
WorkflowRows ==
    UNION {{[nodes |-> [i \in 1..n |-> [id |-> i,
                                        type |-> IF i = u THEN UnknownType
                                                 ELSE RegisteredType]],
             connections |-> c] :
                u \in 0..n, c \in SubsetsUpTo(ConnectionsOn(n), MaxEdges)} :
           n \in 0..MaxNodes}

\* the output a node's execute returns: an object naming the node
OutputOf(id) == {<<"result", ToString(id)>>}

\* base.py 31-63, BaseNode.run: raises is whether execute raised (with
\* message msg) instead of returning output.  propagated: run itself raises.
RunPropagates(raises, output, msg) ==
    [success |-> ~raises, output |-> IF raises THEN EmptyDict ELSE output,
     error |-> IF raises THEN msg ELSE None, propagated |-> raises]

Run(raises, output, msg) ==
    IF raises
    THEN [success |-> FALSE, output |-> EmptyDict, error |-> msg, propagated |-> FALSE]
    ELSE [success |-> TRUE, output |-> output, error |-> None, propagated |-> FALSE]

\* an order that follows the edges: the nodes no edge points at come first
BuildExecutionOrderSourcesFirst(nodes, connections) ==
    LET IsTarget(node) == \E c \in connections : c.target = node.id
        IsSource(node) == ~IsTarget(node) IN
    SelectSeq(nodes, IsSource) \o SelectSeq(nodes, IsTarget)

\* executor.py 174-181, _build_execution_order: the nodes array as it is
BuildExecutionOrder(nodes, connections) == nodes

\* executor.py 245-252, _get_node_inputs: the output stored last, or None
GetNodeInputs(node_outputs) ==
    IF node_outputs # <<>> THEN node_outputs[Len(node_outputs)].output ELSE EmptyDict

\* executor.py 212-218: the log row as inserted
NewLog(node, input_data) ==
    [node_id |-> node.id, node_type |-> node.type, status |-> "running",
     input_data |-> input_data, output_data |-> EmptyDict, error_message |-> None]

\* a result written without the status
LogResultLeftRunning(row, result) ==
    [row EXCEPT !.output_data = result.output,
                !.error_message = result.error]

\* executor.py 227-229: the log row as updated from a result
LogResult(row, result) ==
    [row EXCEPT !.status = IF result.success THEN "completed" ELSE "failed",
                !.output_data = result.output,
                !.error_message = result.error]

\* executor.py 233-234: node_outputs after a result.  node_outputs is a dict:
\* assigning to a key it already has replaces the value where the key stands
StoreOutput(node_outputs, id, result) ==
    IF ~result.success THEN node_outputs
    ELSE IF \E k \in DOMAIN node_outputs : node_outputs[k].id = id
         THEN [k \in DOMAIN node_outputs |->
                  IF node_outputs[k].id = id THEN [id |-> id, output |-> result.output]
                  ELSE node_outputs[k]]
         ELSE Append(node_outputs, [id |-> id, output |-> result.output])

\* executor.py 222-238: the try block goes on to the commit unless node.run
\* raised; a result with success = False is not an exception
AfterRunRaisesOnFailure(result) ==
    IF result.propagated \/ ~result.success THEN "except" ELSE "commit"

AfterRun(result) == IF result.propagated THEN "except" ELSE "commit"

\* executor.py 149: the loop goes to the next node or leaves
LoopPc(i) == IF i <= Len(BuildExecutionOrder(wf.nodes, wf.connections)) THEN "node" ELSE "finish"

CanFault == ex.faults < MaxFaults
Fault(pc, msg) == [ex EXCEPT !.pc = pc, !.e = msg, !.faults = @ + 1]

\* executor.py 126-138: the execution row is inserted; a failing commit
\* raises out of execute before the try
ExecuteStart ==
    /\ ex.pc = "start"
    /\ \/ /\ executionRow' = [NoExecution EXCEPT !.status = "running"]
          /\ ex' = [ex EXCEPT !.pc = LoopPc(1), !.i = 1]
       \/ /\ CanFault
          /\ ex' = Fault("raised", "commit failed")
          /\ UNCHANGED executionRow
    /\ UNCHANGED <<queueVars, otherVars, wf, logs>>

\* executor.py 185-220: registry lookup, inputs, insert of the log row
NodeStart ==
    /\ ex.pc = "node"
    /\ LET node == BuildExecutionOrder(wf.nodes, wf.connections)[ex.i] IN
       IF node.type \notin NODE_REGISTRY
       THEN /\ ex' = [ex EXCEPT !.pc = "handler", !.e = "Unknown node type"]
            /\ UNCHANGED logs
       ELSE \/ /\ logs' = Append(logs, NewLog(node, GetNodeInputs(ex.node_outputs)))
               /\ ex' = [ex EXCEPT !.pc = "run", !.log = Len(logs) + 1]
            \/ /\ CanFault
               /\ ex' = Fault("handler", "commit failed")
               /\ UNCHANGED logs
    /\ UNCHANGED <<queueVars, otherVars, wf, executionRow>>

\* executor.py 222-236: node.run, the log row and node_outputs are assigned,
\* commit.  node_outputs is assigned (line 234) before the commit (line 236).
NodeRun(raises) ==
    /\ ex.pc = "run"
    /\ LET node == BuildExecutionOrder(wf.nodes, wf.connections)[ex.i]
           result == Run(raises, OutputOf(node.id), "execute failed")
           ran == [ex EXCEPT !.raised = raises, !.result = result,
                             !.invoked = Append(@, node.id)] IN
       IF AfterRun(result) = "except"
       THEN /\ ex' = [ran EXCEPT !.pc = "except", !.e = "execute failed"]
            /\ UNCHANGED logs
       ELSE LET stored == [ran EXCEPT !.node_outputs = StoreOutput(@, node.id, result)] IN
            \/ /\ logs' = [logs EXCEPT ![ex.log] = LogResult(@, result)]
               /\ ex' = [stored EXCEPT !.pc = LoopPc(ex.i + 1), !.i = ex.i + 1]
            \/ /\ CanFault
               /\ ex' = [stored EXCEPT !.pc = "except", !.e = "commit failed",
                                       !.faults = @ + 1]
               /\ UNCHANGED logs
    /\ UNCHANGED <<queueVars, otherVars, wf, executionRow>>

\* executor.py 238-243: the log row is marked failed and the exception is
\* raised again; when this commit raises, its exception is the one raised
NodeExcept ==
    /\ ex.pc = "except"
    /\ \/ /\ logs' = [logs EXCEPT ![ex.log].status = "failed",
                                  ![ex.log].error_message = ex.e]
          /\ ex' = [ex EXCEPT !.pc = "handler"]
       \/ /\ CanFault
          /\ ex' = Fault("handler", "commit failed")
          /\ UNCHANGED logs
    /\ UNCHANGED <<queueVars, otherVars, wf, executionRow>>

\* executor.py 153-155: the row as assigned after the loop
ExecutionCompleted(row, node_outputs) ==
    [row EXCEPT !.status = "completed", !.completed_at = TRUE,
                !.execution_data = node_outputs]

\* executor.py 164-167: the row as assigned by the except block
ExecutionFailed(row, e, node_outputs) ==
    [row EXCEPT !.status = "failed", !.completed_at = TRUE, !.error_message = e,
                !.execution_data = node_outputs]

\* executor.py 152-160: after the loop the row is marked completed, committed
\* and refreshed, inside the try
Finish ==
    /\ ex.pc = "finish"
    /\ LET completed == ExecutionCompleted(executionRow, ex.node_outputs) IN
       \/ /\ executionRow' = completed
          /\ ex' = [ex EXCEPT !.pc = "returned"]
       \/ /\ CanFault
          /\ ex' = Fault("handler", "commit failed")
          /\ UNCHANGED executionRow
       \/ /\ CanFault
          /\ executionRow' = completed
          /\ ex' = Fault("handler", "refresh failed")
    /\ UNCHANGED <<queueVars, otherVars, wf, logs>>

\* executor.py 162-172: the row is marked failed with the message and the
\* outputs stored so far, committed, and the exception raised again
Handler ==
    /\ ex.pc = "handler"
    /\ \/ /\ executionRow' = ExecutionFailed(executionRow, ex.e, ex.node_outputs)
          /\ ex' = [ex EXCEPT !.pc = "raised"]
       \/ /\ CanFault
          /\ ex' = Fault("raised", "commit failed")
          /\ UNCHANGED executionRow
    /\ UNCHANGED <<queueVars, otherVars, wf, logs>>

InitExec ==
    /\ jobs = <<>>
    /\ sched = [s \in SchedIds |-> [workflow_id |-> SchedWorkflow(s),
                                    user_id |-> OwnerOf(SchedWorkflow(s)),
                                    last_run |-> FALSE, run_count |-> 0]]
    /\ execs = <<>>
    /\ task = [j \in JobIds |-> IdleTask]
    /\ tick = IdleTick
    /\ req = {}
    /\ resp = None
    /\ cancelledEver = {}
    /\ workflows = Workflows
    /\ wf \in WorkflowRows
    /\ executionRow = NoExecution
    /\ logs = <<>>
    /\ ex = [IdleExecutor EXCEPT !.pc = "start"]
    /\ OthersIdle

NextExec ==
    \/ ExecuteStart
    \/ NodeStart
    \/ \E raises \in BOOLEAN : NodeRun(raises)
    \/ NodeExcept
    \/ Finish
    \/ Handler

SpecExec == InitExec /\ [][NextExec]_vars

\* ========================================================================
\* Claims
\* ========================================================================

StatusOf(j) == jobs[j].status

\* no cancel_job or retry_job request has been received so far
NoRequestYet == resp = None /\ req = {}

\* C1: in every reachable state each workflow_id has at most one JobQueue
\* entry whose status is pending or running.
C1_SingleFlight == \A w \in Workflows : Cardinality(ActiveOf(w)) <= 1

\* C2: no two WorkflowExecution rows of the same workflow are in status
\* running at the same time.
C2_NoOverlap == \A w \in Workflows : Cardinality(RunningExecs(w)) <= 1

\* C3: an entry whose every execution failed, left alone by cancel_job and
\* retry_job, has had its workflow executed max_retries + 1 times when its
\* dispatch has ended, and is failed with retry_count = max_retries.
C3_RetryBound ==
    \A j \in DOMAIN jobs :
        (/\ task[j].pc = "done"
         /\ NoRequestYet
         /\ ExecsOf(j) # {}
         /\ \A e \in ExecsOf(j) : execs[e].status = "failed")
        => /\ Cardinality(ExecsOf(j)) = jobs[j].max_retries + 1
           /\ StatusOf(j) = "failed"
           /\ jobs[j].retry_count = jobs[j].max_retries

\* C4: once an entry's status is cancelled it is cancelled in every later state.
C4_CancelledStays ==
    [][\A j \in DOMAIN jobs : StatusOf(j) = "cancelled" => jobs'[j].status = "cancelled"]_vars

\* C5: after cancel_job has succeeded on an entry no workflow execution is
\* started for that entry.
C5_NoRunAfterCancel ==
    [][\A j \in cancelledEver : ExecsOf(j)' = ExecsOf(j)]_vars

\* C6: queue_job for a schedule whose workflow has a pending or running
\* entry inserts no row, creates no dispatch and leaves the schedule alone;
\* otherwise it inserts exactly one pending row for the workflow, sets
\* last_run and adds 1 to run_count.
C6_Select ==
    (tick.pc = "idle" /\ tick'.pc = "checked")
    => /\ tick'.existing = Cardinality(ActiveOf(sched[tick'.sj].workflow_id))
       /\ jobs' = jobs /\ sched' = sched /\ task' = task

C6_Commit ==
    (tick.pc = "checked" /\ tick'.pc = "idle")
    => IF tick.existing > 0
       THEN jobs' = jobs /\ sched' = sched /\ task' = task
       ELSE /\ Len(jobs') = Len(jobs) + 1
            /\ \A j \in DOMAIN jobs : jobs'[j] = jobs[j]
            /\ jobs'[Len(jobs')].status = "pending"
            /\ jobs'[Len(jobs')].workflow_id = sched[tick.sj].workflow_id
            /\ sched'[tick.sj].last_run
            /\ sched'[tick.sj].run_count = sched[tick.sj].run_count + 1
            /\ \A s \in SchedIds \ {tick.sj} : sched'[s] = sched[s]
            /\ task'[Len(jobs')].pc = "read"

C6_QueueJob == [][C6_Select /\ C6_Commit]_vars

\* C6 witness: queue_job has found the entry it inserted before still pending
\* or running, and a second workflow has been queued as well
C6_Witness ==
    /\ tick.pc = "checked" /\ tick.existing = 1
    /\ sched[tick.sj].run_count = 1
    /\ Len(jobs) = 2 /\ jobs[1].workflow_id # jobs[2].workflow_id

\* C7: execute_queued_job acts only on an entry it finds pending; it commits
\* running and started_at before the executor is called; when the executor
\* ends the entry is completed if the execution is completed and failed
\* otherwise, with completed_at set; on an entry that is not pending it
\* changes nothing and runs nothing.
C7_Read(j) ==
    (task[j].pc \in {"read", "sleep"} /\ task'[j] # task[j])
    => /\ jobs' = jobs /\ execs' = execs
       /\ IF StatusOf(j) = "pending"
          THEN task'[j].pc = "commit_running"
          ELSE task'[j].pc = "done"

C7_Running(j) ==
    (task[j].pc = "commit_running" /\ task'[j] # task[j])
    => /\ jobs'[j].status = "running" /\ jobs'[j].started_at
       /\ execs' = execs

C7_Invoked(j) ==
    (ExecsOf(j)' # ExecsOf(j))
    => /\ task[j].pc = "invoke"
       /\ task[j].job.status = "running" /\ task[j].job.started_at

C7_Finished(j) ==
    (task[j].pc = "executing" /\ task'[j] # task[j])
    => LET e == task[j].execution
       IN /\ execs'[e].status \in {"completed", "failed"}
          /\ jobs'[j].status = IF execs'[e].status = "completed"
                               THEN "completed" ELSE "failed"
          /\ jobs'[j].completed_at

C8_Refused ==
    \A id \in JobIds, u \in Users :
        (CancelRead(id, u) /\ id \in DOMAIN jobs /\ jobs[id].user_id = u
         /\ StatusOf(id) \in {"completed", "failed", "cancelled"})
        => resp' = "400" /\ jobs' = jobs /\ req' = req

C8_Accepted ==
    \A r \in req, last \in BOOLEAN :
        (r.kind = "cancel" /\ CancelCommit(r, last))
        => /\ r.job.status \in {"pending", "running"}
           /\ jobs'[r.id].status = "cancelled"
           /\ jobs'[r.id].completed_at
           /\ resp' = "ok"
           /\ \A j \in DOMAIN jobs \ {r.id} : jobs'[j] = jobs[j]

C8_OnlyByCancel ==
    \A j \in DOMAIN jobs :
        (StatusOf(j) # "cancelled" /\ jobs'[j].status = "cancelled")
        => \E r \in req : r.kind = "cancel" /\ r.id = j
                          /\ r.job.status \in {"pending", "running"}

C8_Cancel == [][C8_Refused /\ C8_OnlyByCancel /\ C8_Accepted]_vars

\* C8 witness: a cancel_job has cancelled an entry and a later request on a
\* finished entry was refused
C8_Witness ==
    \E j \in cancelledEver :
        StatusOf(j) = "cancelled" /\ jobs[j].completed_at /\ resp = "400" /\ req = {}

\* C9: retry_job on an entry it finds failed sets pending, retry_count 0 and
\* no error_message; on an entry in any other status it returns an error and
\* changes no field.
C9_Refused ==
    \A id \in JobIds, u \in Users :
        (RetryRead(id, u) /\ id \in DOMAIN jobs /\ jobs[id].user_id = u
         /\ StatusOf(id) # "failed")
        => resp' = "400" /\ jobs' = jobs /\ req' = req

C9_Accepted ==
    \A r \in req, last \in BOOLEAN :
        (r.kind = "retry" /\ RetryCommit(r, last))
        => /\ r.job.status = "failed"
           /\ jobs'[r.id].status = "pending"
           /\ jobs'[r.id].retry_count = 0
           /\ jobs'[r.id].error_message = None
           /\ resp' = "ok"
           /\ \A j \in DOMAIN jobs \ {r.id} : jobs'[j] = jobs[j]

C9_OnlyByRetry ==
    \A j \in DOMAIN jobs :
        (StatusOf(j) # "pending" /\ jobs'[j].status = "pending")
        => \E r \in req : r.kind = "retry" /\ r.id = j /\ r.job.status = "failed"

C9_Retry == [][C9_Refused /\ C9_OnlyByRetry /\ C9_Accepted]_vars

\* C9 witness: a failed entry with an error message and a retry_count above
\* 0 has been loaded by retry_job and is pending again
C9_Witness ==
    \E r \in req :
        /\ r.kind = "retry" /\ r.job.retry_count > 0 /\ r.job.error_message # None
        /\ StatusOf(r.id) = "pending" /\ jobs[r.id].retry_count = 0
        /\ jobs[r.id].error_message = None /\ resp = "ok"

\* C10: a status change between statuses other than cancelled is one of
\* pending -> running, running -> completed, running -> failed,
\* failed -> pending.
C10_StateMachine ==
    [][\A j \in DOMAIN jobs :
          (StatusOf(j) # jobs'[j].status /\ StatusOf(j) # "cancelled"
           /\ jobs'[j].status # "cancelled")
          => <<StatusOf(j), jobs'[j].status>> \in
                {<<"pending", "running">>, <<"running", "completed">>,
                 <<"running", "failed">>, <<"failed", "pending">>}]_vars

\* ------------------------------------------------------------------------
\* Claims about one run of the executor (SpecExec)
\* ------------------------------------------------------------------------
NodeCount == Len(wf.nodes)
Edges == {<<c.source, c.target>> : c \in wf.connections}
Preds(b) == {a \in 1..NodeCount : <<a, b>> \in Edges}
Succs(S) == {b \in 1..NodeCount : \E a \in S : <<a, b>> \in Edges}

RECURSIVE Closure(_, _)
Closure(S, k) == IF k = 0 THEN S ELSE Closure(S \cup Succs(S), k - 1)

Descendants(a) == Closure(Succs({a}), NodeCount)
Cyclic == \E a \in 1..NodeCount : a \in Descendants(a)
\* the nodes array lists every source before its target
ArrayIsTopological == \A e \in Edges : e[1] < e[2]

LogsOf(n) == {k \in DOMAIN logs : logs[k].node_id = n}
LogStatus(n) == IF LogsOf(n) = {} THEN "none" ELSE logs[CHOOSE k \in LogsOf(n) : TRUE].status
Invoked == {ex.invoked[k] : k \in DOMAIN ex.invoked}
Ended == ex.pc \in {"returned", "raised"}
NoFault == ex.faults = 0
DataKeys(data) == {data[k].id : k \in DOMAIN data}
\* the step inserted a log row
LogCreated == Len(logs') = Len(logs) + 1

\* C11: a workflow whose connections form a cycle always ends failed, with
\* no node invoked and no log row (stated for runs in which no database
\* call raised).
C11_CycleRejected ==
    (Cyclic /\ NoFault)
    => /\ ex.invoked = <<>>
       /\ logs = <<>>
       /\ (Ended => executionRow.status = "failed")

\* C12: for every connection a -> b of an acyclic workflow, whatever the
\* order of the nodes array, b's log row is created only when a's log row
\* exists and is finalized.
C12_TopologicalOrder ==
    [][(LogCreated /\ ~Cyclic)
       => \A a \in Preds(logs'[Len(logs')].node_id) :
              LogStatus(a) \in {"completed", "failed", "skipped"}]_vars

\* C13: in an acyclic workflow run in topological order without database
\* failure, a node all of whose upstream nodes ended failed or skipped is
\* never invoked and ends with a log row of status skipped, and the
\* execution ends completed.
C13_SkipPropagation ==
    (ex.pc = "returned" /\ NoFault /\ ~Cyclic /\ ArrayIsTopological)
    => /\ executionRow.status = "completed"
       /\ \A c \in 1..NodeCount :
              (Preds(c) # {} /\ \A p \in Preds(c) : LogStatus(p) \in {"failed", "skipped"})
              => (c \notin Invoked /\ LogStatus(c) = "skipped")

\* the step called node.run and got a result with success = False
NodeFailed == Len(ex'.invoked) = Len(ex.invoked) + 1 /\ ~ex'.result.success
AllRegistered == \A i \in DOMAIN wf.nodes : wf.nodes[i].type \in NODE_REGISTRY

\* C14: a run in which node runs fail but no infrastructure failure occurs
\* (every type registered, no database call raises) ends completed with
\* every node processed; a result with success = False leaves the execution
\* row as it is and the loop goes on to the next node.
C14_Ends ==
    (Ended /\ NoFault /\ AllRegistered)
    => /\ ex.pc = "returned"
       /\ executionRow.status = "completed"
       /\ \A n \in 1..NodeCount : n \in Invoked /\ LogStatus(n) \in {"completed", "failed"}

C14_Continues ==
    (NodeFailed /\ ex'.faults = ex.faults)
    => /\ executionRow' = executionRow
       /\ executionRow.status = "running"
       /\ ex'.i = ex.i + 1
       /\ ex'.pc = LoopPc(ex.i + 1)

C14_NodeFailureDoesNotAbort == [](C14_Ends) /\ [][C14_Continues]_vars

\* a completed run in which a node failed and a later node was run
C14_Witness ==
    /\ ex.pc = "returned" /\ NoFault /\ executionRow.status = "completed"
    /\ NodeCount >= 2
    /\ LogStatus(1) = "failed"
    /\ LogStatus(2) = "completed"

\* C15: when a node's type is not registered or a database write fails, the
\* run is aborted: once execute has raised, the execution row is failed with
\* the failure's message, no node after the failing one was invoked or
\* logged, and execution_data holds the outputs stored before the failure.
\* (A raise after the row was stored completed is left to C20.)
C15_Aborted ==
    (ex.pc = "raised" /\ executionRow.status \notin {"none", "completed"})
    => /\ executionRow.status = "failed"
       /\ executionRow.error_message # None
       /\ executionRow.execution_data = ex.node_outputs
       /\ Len(logs) <= ex.i /\ Len(ex.invoked) <= ex.i

HandleKey(c) == IF c.targetHandle = None THEN "default" ELSE c.targetHandle

\* the input the connections give node b: one entry per incoming connection
\* whose source has stored an output, keyed by the handle; the value names
\* the source whose output it is
ExpectedInput(b) ==
    {<<HandleKey(c), ToString(c.source)>> :
        c \in {d \in wf.connections : d.target = b /\ d.source \in DataKeys(ex.node_outputs)}}

\* C17: the input a node is started with is the union of the outputs of the
\* sources of its incoming connections keyed by targetHandle ("default"
\* when unset), and empty for a node without incoming connection.
C17_NodeInputs ==
    [][LogCreated
       => LET row == logs'[Len(logs')] IN
          /\ row.input_data = ExpectedInput(row.node_id)
          /\ (Preds(row.node_id) = {} => row.input_data = EmptyDict)]_vars

\* C18: BaseNode.run never raises: when execute raised, the result is
\* success = False, output {} and the failure's message; when execute
\* returned, success = True, that output and no error.
C18_RunResult ==
    /\ ex.invoked # <<>> =>
          /\ ~ex.result.propagated
          /\ ex.raised => ex.result = [success |-> FALSE, output |-> EmptyDict,
                                       error |-> "execute failed", propagated |-> FALSE]
          /\ ~ex.raised => ex.result = [success |-> TRUE,
                                        output |-> OutputOf(ex.invoked[Len(ex.invoked)]),
                                        error |-> None, propagated |-> FALSE]
    /\ ex.pc = "except" => ex.e = "commit failed"

C18_RunNeverRaises == [](C18_RunResult)

\* execute raised inside run and the executor went on with the result
C18_Witness ==
    /\ ex.invoked # <<>> /\ ex.raised
    /\ ~ex.result.success /\ ex.result.error = "execute failed"
    /\ ex.pc \in {"node", "finish"}

C20_CreatedRunning ==
    /\ (executionRow.status = "none" /\ executionRow'.status # "none")
       => (executionRow'.status = "running" /\ logs' = <<>>)
    /\ LogCreated => executionRow.status # "none"

C20_Terminal ==
    executionRow.status \in {"completed", "failed"}
    => executionRow'.status = executionRow.status

C20_ExecutionLifecycle == [][C20_CreatedRunning /\ C20_Terminal]_vars


\* ---------------------------------------------------------------------
\* Trigger evaluation: WorkflowScheduler.should_execute and the four
\* _check_*_trigger methods (engine/scheduler.py:63-153).
\*
\* A datetime is a positive integer; 0 stands for None (the column is NULL).
\* One cron period ("day") is DayLen units long.  A cron expression is
\* [valid, every, at]: croniter fires it at every t with t % every = at,
\* and raises on an expression that is not valid.
\* ---------------------------------------------------------------------
DayLen == 3
MaxInterval == 2
MaxPrice == 2
MaxTime == 2 * DayLen

Times == 1..MaxTime
Prices == 1..MaxPrice
Daily9 == [valid |-> TRUE, every |-> DayLen, at |-> 1]
InvalidCron == [valid |-> FALSE, every |-> 1, at |-> 0]
CronExprs == {[valid |-> TRUE, every |-> 1, at |-> 0]}
                 \cup {[valid |-> TRUE, every |-> DayLen, at |-> a] : a \in 0..(DayLen - 1)}
                 \cup {InvalidCron}

\* the operators line 124 looks for in the condition string
ComparisonOps == {">", "<", ">=", "<=", "=="}

\* A condition string.  form "triple" is the text "price OP threshold";
\* form "free" is any other Python expression: has_op says whether one of
\* the substrings of ComparisonOps occurs in it, and truthy, raises and
\* effect say what evaluating it does (its value, whether it raises, and
\* whether it does anything besides producing a value).
Triple(op, threshold) == [form |-> "triple", op |-> op, threshold |-> threshold,
                          has_op |-> op \in ComparisonOps,
                          truthy |-> FALSE, raises |-> FALSE, effect |-> FALSE]
FreeForm(has_op, truthy, raises, effect) ==
    [form |-> "free", op |-> None, threshold |-> 0, has_op |-> has_op,
     truthy |-> truthy, raises |-> raises, effect |-> effect]
EmptyCondition == FreeForm(FALSE, FALSE, TRUE, FALSE)
Conditions ==
    {Triple(op, th) : op \in ComparisonOps \cup {"!="}, th \in Prices}
        \cup {FreeForm(h, v, r, e) : h \in BOOLEAN, v \in BOOLEAN, r \in BOOLEAN, e \in BOOLEAN}

\* trigger_config: keys is the set of keys the JSON object has
Config(keys, cron, interval, condition) ==
    [keys |-> keys, cron_expression |-> cron, interval_minutes |-> interval,
     condition |-> condition]
NoConfig == Config({}, InvalidCron, 1, EmptyCondition)
TriggerConfigs ==
    {NoConfig}
        \cup {Config({"cron_expression"}, c, 1, EmptyCondition) : c \in CronExprs}
        \cup {Config({"interval_minutes"}, InvalidCron, n, EmptyCondition) : n \in 1..MaxInterval}
        \cup {Config({"symbol"}, InvalidCron, 1, EmptyCondition)}
        \cup {Config({"symbol", "condition"}, InvalidCron, 1, c) : c \in Conditions}

TriggerTypes == {"cron", "price", "indicator", "time", "webhook", "manual"}

\* what mt5_handler.get_symbol_info gives: it raises, returns nothing, or a bid
Markets == {[status |-> "error", bid |-> 1], [status |-> "none", bid |-> 1]}
               \cup {[status |-> "ok", bid |-> p] : p \in Prices}

\* croniter(expr, base).get_next(): the first occurrence strictly after base
CronNext(expr, base) ==
    base + 1 + ((expr.at + expr.every * (base + 1) - (base + 1)) % expr.every)

\* datetime.utcnow() >= t.  utcnow() is naive; a column declared
\* DateTime(timezone=True) is read back aware on a backend that keeps the
\* zone and naive on one that does not, and Python raises TypeError when
\* it compares a naive datetime with an aware one.
NowAtLeast(now, t, aware) ==
    [raised |-> aware, value |-> (~aware) /\ now >= t]

Verdict(due, raised, next_run, effect) ==
    [due |-> due, raised |-> raised, next_run |-> next_run, effect |-> effect]

\* the iteration started from last_run also when it is unset
CheckCronTriggerFromLastRun(job, now, aware) ==
    IF job.trigger_config.keys = {} \/ "cron_expression" \notin job.trigger_config.keys
    THEN Verdict(FALSE, FALSE, job.next_run, FALSE)
    ELSE LET cron_expr == job.trigger_config.cron_expression IN
         IF ~cron_expr.valid
         THEN Verdict(FALSE, FALSE, job.next_run, FALSE)
         ELSE LET next_run == CronNext(cron_expr, job.last_run)
                  cmp == NowAtLeast(now, next_run, aware /\ job.last_run # 0)
              IN  Verdict(cmp.value, FALSE, next_run, FALSE)

CheckCronTrigger(job, now, aware) ==
    IF job.trigger_config.keys = {} \/ "cron_expression" \notin job.trigger_config.keys
    THEN Verdict(FALSE, FALSE, job.next_run, FALSE)
    ELSE LET cron_expr == job.trigger_config.cron_expression IN
         IF ~cron_expr.valid
         THEN Verdict(FALSE, FALSE, job.next_run, FALSE)
         ELSE LET base == IF job.last_run # 0 THEN job.last_run ELSE now
                  next_run == CronNext(cron_expr, base)
                  cmp == NowAtLeast(now, next_run, aware /\ job.last_run # 0)
              IN  Verdict(cmp.value, FALSE, next_run, FALSE)

\* eval(condition_str) of line 126, after 'price' was replaced by the bid
Compare(bid, op, threshold) ==
    CASE op = ">" -> bid > threshold
      [] op = "<" -> bid < threshold
      [] op = ">=" -> bid >= threshold
      [] op = "<=" -> bid <= threshold
      [] op = "==" -> bid = threshold
      [] OTHER -> bid # threshold

Eval(condition, bid) ==
    IF condition.form = "triple"
    THEN [value |-> Compare(bid, condition.op, condition.threshold), effect |-> FALSE]
    ELSE [value |-> (~condition.raises) /\ condition.truthy, effect |-> condition.effect]

CheckPriceTrigger(job, market) ==
    IF job.trigger_config.keys = {}
    THEN Verdict(FALSE, FALSE, job.next_run, FALSE)
    ELSE LET condition == IF "condition" \in job.trigger_config.keys
                          THEN job.trigger_config.condition
                          ELSE EmptyCondition
         IN  IF market.status # "ok"
             THEN Verdict(FALSE, FALSE, job.next_run, FALSE)
             ELSE IF condition.has_op
                  THEN LET result == Eval(condition, market.bid)
                       IN  Verdict(result.value, FALSE, job.next_run, result.effect)
                  ELSE Verdict(FALSE, FALSE, job.next_run, FALSE)

CheckIndicatorTriggerDue(job) == Verdict(TRUE, FALSE, job.next_run, FALSE)

CheckIndicatorTrigger(job) == Verdict(FALSE, FALSE, job.next_run, FALSE)

CheckTimeTrigger(job, now, aware) ==
    IF job.trigger_config.keys = {} \/ "interval_minutes" \notin job.trigger_config.keys
    THEN Verdict(FALSE, FALSE, job.next_run, FALSE)
    ELSE IF job.last_run = 0
         THEN Verdict(TRUE, FALSE, job.next_run, FALSE)
         ELSE LET next_run == job.last_run + job.trigger_config.interval_minutes
                  cmp == NowAtLeast(now, next_run, aware)
              IN  Verdict(cmp.value, cmp.raised, job.next_run, FALSE)

ShouldExecute(job, now, market, aware) ==
    CASE job.trigger_type = "cron" -> CheckCronTrigger(job, now, aware)
      [] job.trigger_type = "price" -> CheckPriceTrigger(job, market)
      [] job.trigger_type = "indicator" -> CheckIndicatorTrigger(job)
      [] job.trigger_type = "time" -> CheckTimeTrigger(job, now, aware)
      [] OTHER -> Verdict(FALSE, FALSE, job.next_run, FALSE)

\* A ScheduledJob row as should_execute reads it
Job(type, config, last_run, next_run) ==
    [trigger_type |-> type, trigger_config |-> config, last_run |-> last_run,
     next_run |-> next_run]
CalmMarket == [status |-> "ok", bid |-> 1]
NoVerdict == Verdict(FALSE, FALSE, 0, FALSE)

\* the calls of should_execute that are tried: every row that differs in
\* something the evaluator of its trigger_type reads, and for each other
\* trigger_type rows with and without a configuration
TriggerCalls ==
    {[job |-> Job("cron", c, l, n), now |-> t, market |-> CalmMarket, aware |-> a] :
        c \in {cfg \in TriggerConfigs : cfg.keys \subseteq {"cron_expression"}},
        l \in 0..MaxTime, n \in 0..MaxTime, t \in Times, a \in BOOLEAN}
    \cup
    {[job |-> Job("time", c, l, 0), now |-> t, market |-> CalmMarket, aware |-> a] :
        c \in {cfg \in TriggerConfigs : cfg.keys \subseteq {"interval_minutes"}},
        l \in 0..MaxTime, t \in Times, a \in BOOLEAN}
    \cup
    {[job |-> Job("price", c, l, 0), now |-> MaxTime, market |-> m, aware |-> a] :
        c \in {cfg \in TriggerConfigs : cfg.keys \subseteq {"symbol", "condition"}},
        l \in {0, 1}, m \in Markets, a \in BOOLEAN}
    \cup
    {[job |-> Job(ty, c, l, 0), now |-> MaxTime, market |-> m, aware |-> a] :
        ty \in TriggerTypes \ {"cron", "time", "price"},
        c \in {NoConfig, Config({"cron_expression"}, Daily9, 1, EmptyCondition),
               Config({"interval_minutes"}, InvalidCron, 1, EmptyCondition),
               Config({"symbol", "condition"}, InvalidCron, 1, Triple(">=", 1))},
        l \in {0, 1}, m \in Markets, a \in BOOLEAN}

\* one call of should_execute
Evaluate ==
    /\ trig.pc = "called"
    /\ trig' = [trig EXCEPT !.pc = "returned",
                            !.result = ShouldExecute(trig.job, trig.now, trig.market,
                                                     trig.aware)]
    /\ UNCHANGED <<queueVars, execVars, check, loop, order, states>>

QueueAndExecutorIdle ==
    /\ jobs = <<>>
    /\ sched = [s \in SchedIds |-> [workflow_id |-> SchedWorkflow(s),
                                    user_id |-> OwnerOf(SchedWorkflow(s)),
                                    last_run |-> FALSE, run_count |-> 0]]
    /\ execs = <<>>
    /\ task = [j \in JobIds |-> IdleTask]
    /\ tick = IdleTick
    /\ req = {}
    /\ resp = None
    /\ cancelledEver = {}
    /\ workflows = Workflows
    /\ wf = NoWorkflow
    /\ executionRow = NoExecution
    /\ logs = <<>>
    /\ ex = IdleExecutor

InitTrig ==
    /\ QueueAndExecutorIdle
    /\ \E c \in TriggerCalls :
          trig = [pc |-> "called", job |-> c.job, now |-> c.now, market |-> c.market,
                  aware |-> c.aware, result |-> NoVerdict]
    /\ check = NoCall
    /\ loop = NoCall
    /\ order = NoCall
    /\ states = NoCall

NextTrig == Evaluate

SpecTrig == InitTrig /\ [][NextTrig]_vars

\* ---------------------------------------------------------------------
\* The scheduler loop's tick: check_and_execute_jobs, should_execute and
\* queue_job on the rows of scheduled_jobs (engine/scheduler.py:46-190).
\*
\* check.rows is the table scheduled_jobs and check.queue says, for each
\* schedule's workflow, whether job_queue holds no row of it, an active one
\* (pending or running, its task not finished) or only finished ones.  A
\* tick works on one session: check.objs are the rows as the session loaded
\* them, check.failed says that a call on the session has raised.  The
\* fields from activeAtLoad on record what the current tick has done.
\* ---------------------------------------------------------------------
\* the loop sleeps check_interval = 60 seconds, one unit of time; ticks are
\* followed up to the time LastTick
check_interval == 1
LastTick == DayLen + 1

Row(type, config, last_run) ==
    [trigger_type |-> type, trigger_config |-> config, is_active |-> TRUE,
     last_run |-> last_run, next_run |-> 0, run_count |-> IF last_run = 0 THEN 0 ELSE 1]

\* the rows a tick is tried on
ScheduleRows ==
    {Row("cron", Config({"cron_expression"}, [valid |-> TRUE, every |-> 1, at |-> 0],
                        1, EmptyCondition), l) : l \in {0, 1}}
    \cup {Row("cron", Config({"cron_expression"}, InvalidCron, 1, EmptyCondition), 0)}
    \cup {Row("time", Config({"interval_minutes"}, InvalidCron, MaxInterval, EmptyCondition), l) :
        l \in {0, 1}}
    \cup {Row("price", Config({"symbol", "condition"}, InvalidCron, 1, Triple(">=", MaxPrice)), 0)}
    \cup {Row(ty, NoConfig, 0) : ty \in {"indicator", "webhook"}}

NoEval == [job |-> 0, now |-> 0, last_run |-> 0, due |-> FALSE, raised |-> FALSE]

\* select(ScheduledJob).where(is_active == True), in id order
LoadEveryRow(rows) == [k \in 1..Cardinality(SchedIds) |-> k]

LoadActive(rows) ==
    LET ids == {s \in SchedIds : rows[s].is_active}
        Nth[k \in 1..Cardinality(ids)] ==
            CHOOSE s \in ids : Cardinality({t \in ids : t < s}) = k - 1
    IN  [k \in 1..Cardinality(ids) |-> Nth[k]]

\* asyncio.create_task: the task runs on its own, the tick awaits nothing
AwaitedDirectly(s) == {s}

Awaited(s) == {}

Unblocked == \A a \in check.awaiting : check.queue[a] # "active"

\* the loop moves to the next loaded row, or the tick ends
Advance(c) ==
    IF c.i < Len(c.jobs) THEN [c EXCEPT !.pc = "eval", !.i = c.i + 1]
    ELSE [c EXCEPT !.pc = "sleep"]

NewTick(c, now) ==
    [c EXCEPT !.now = now, !.failed = FALSE, !.i = 1, !.objs = c.rows,
              !.activeAtLoad = {s \in SchedIds : c.rows[s].is_active},
              !.evaluated = {}, !.due = {}, !.called = {}, !.enqueued = {},
              !.poisoned = {}, !.errored = {}, !.lastEval = NoEval]

\* lines 46-54: a tick opens a session and loads the active rows; the first
\* tick follows start() at once, every later one a sleep of check_interval
CheckAndExecuteJobs(dt, raises) ==
    /\ check.pc \in {"start", "sleep"}
    /\ Unblocked
    /\ IF check.pc = "start" THEN dt = 0 ELSE dt >= check_interval
    /\ check.now + dt <= LastTick
    /\ LET c == NewTick(check, check.now + dt) IN
       check' = IF raises
                THEN [c EXCEPT !.pc = "sleep", !.jobs = <<>>, !.loadFailed = TRUE]
                ELSE LET loaded == LoadActive(check.rows)
                     IN  [c EXCEPT !.pc = IF loaded = <<>> THEN "sleep" ELSE "eval",
                                   !.jobs = loaded, !.loadFailed = FALSE]
    /\ UNCHANGED <<queueVars, execVars, trig, loop, order, states>>

\* lines 57-61: should_execute on the row the session loaded
ShouldExecuteStep(market) ==
    /\ check.pc = "eval"
    /\ Unblocked
    /\ LET s == check.jobs[check.i]
           v == ShouldExecute(check.objs[s], check.now, market, check.aware)
           c == [check EXCEPT !.objs[s].next_run = v.next_run,
                              !.evaluated = @ \cup {s},
                              !.lastEval = [job |-> s, now |-> check.now,
                                            last_run |-> check.objs[s].last_run,
                                            due |-> v.due, raised |-> v.raised]]
       IN  check' = IF v.raised THEN Advance([c EXCEPT !.errored = @ \cup {s}])
                    ELSE IF v.due
                         THEN [c EXCEPT !.pc = "select", !.due = @ \cup {s},
                                        !.called = @ \cup {s}]
                         ELSE Advance(c)
    /\ UNCHANGED <<queueVars, execVars, trig, loop, order, states>>

\* A database call of queue_job on the tick's session: it succeeds, it
\* raises for a reason of its own (once in a tick at most), or it raises
\* because an earlier call on the session has raised and the session was
\* not rolled back.
CallOutcomes == {"ok"} \cup (IF check.failed THEN {"unusable"} ELSE {"raises"})

Raised(c, s, outcome) ==
    Advance([c EXCEPT !.failed = TRUE,
                      !.errored = @ \cup {s},
                      !.poisoned = IF outcome = "unusable" THEN @ \cup {s} ELSE @])

\* lines 159-169: the select of an active queue row of the workflow
EnqueueSelect(outcome) ==
    /\ check.pc = "select"
    /\ Unblocked
    /\ outcome \in CallOutcomes
    /\ LET s == check.jobs[check.i] IN
       check' = IF outcome # "ok" THEN Raised(check, s, outcome)
                ELSE IF check.queue[s] = "active" THEN Advance(check)
                ELSE [check EXCEPT !.pc = "commit"]
    /\ UNCHANGED <<queueVars, execVars, trig, loop, order, states>>

\* lines 171-190: the new row, last_run and run_count are committed with
\* whatever else the session holds changed, then the task is created
EnqueueCommit(outcome, dt) ==
    /\ check.pc = "commit"
    /\ Unblocked
    /\ outcome \in CallOutcomes
    /\ check.now + dt <= LastTick
    /\ LET s == check.jobs[check.i]
           now == check.now + dt
           objs == [check.objs EXCEPT ![s].last_run = now,
                                      ![s].run_count = @ + 1]
           loaded == {check.jobs[k] : k \in 1..Len(check.jobs)}
       IN
       check' = IF outcome # "ok" THEN Raised(check, s, outcome)
                ELSE Advance([check EXCEPT
                        !.now = now,
                        !.objs = objs,
                        !.rows = [t \in SchedIds |->
                                     IF t \in loaded
                                     THEN [check.rows[t] EXCEPT
                                              !.last_run = objs[t].last_run,
                                              !.run_count = objs[t].run_count,
                                              !.next_run = objs[t].next_run]
                                     ELSE check.rows[t]],
                        !.queue[s] = "active",
                        !.awaiting = Awaited(s),
                        !.enqueued = @ \cup {s},
                        !.enqueuedAt[s] = now])
    /\ UNCHANGED <<queueVars, execVars, trig, loop, order, states>>

\* execute_queued_job of the row finishes, whatever its result
TaskDone(s) ==
    /\ check.pc # "idle"
    /\ check.queue[s] = "active"
    /\ check' = [check EXCEPT !.queue[s] = "done"]
    /\ UNCHANGED <<queueVars, execVars, trig, loop, order, states>>

\* routers/scheduler.py toggle_job: a user switches a schedule on or off
ToggleJob(s) ==
    /\ check.pc # "idle"
    /\ check' = [check EXCEPT !.rows[s].is_active = ~@]
    /\ UNCHANGED <<queueVars, execVars, trig, loop, order, states>>

InitTick ==
    /\ QueueAndExecutorIdle
    /\ trig = NoCall
    /\ \E rows \in [SchedIds -> ScheduleRows], aware \in BOOLEAN :
          check = [pc |-> "start", now |-> 1, aware |-> aware, rows |-> rows,
                   queue |-> [s \in SchedIds |-> "none"], jobs |-> <<>>, i |-> 1,
                   objs |-> rows, failed |-> FALSE, awaiting |-> {},
                   loadFailed |-> FALSE,
                   activeAtLoad |-> {}, evaluated |-> {}, due |-> {}, called |-> {},
                   enqueued |-> {}, poisoned |-> {}, errored |-> {},
                   lastEval |-> NoEval, enqueuedAt |-> [s \in SchedIds |-> 0]]
    /\ loop = NoCall
    /\ order = NoCall
    /\ states = NoCall

TickStep ==
    \/ \E dt \in 0..LastTick, raises \in BOOLEAN : CheckAndExecuteJobs(dt, raises)
    \/ \E market \in Markets : ShouldExecuteStep(market)
    \/ \E outcome \in {"ok", "raises", "unusable"} : EnqueueSelect(outcome)
    \/ \E outcome \in {"ok", "raises", "unusable"}, dt \in {0, 1} : EnqueueCommit(outcome, dt)

NextTick ==
    \/ TickStep
    \/ \E s \in SchedIds : TaskDone(s)
    \/ \E s \in SchedIds : ToggleJob(s)

SpecTick == InitTick /\ [][NextTick]_vars

\* ---------------------------------------------------------------------
\* The loop itself: WorkflowScheduler.start and stop (engine/scheduler.py:
\* 28-44).  Both are coroutines: a call of start() is a task that sets
\* running and enters the loop when the event loop first runs it.
\* loop.calls[k] is the position of the k-th call of start(), loop.inflight
\* counts the tasks of execute_queued_job that have not finished, and
\* loop.stopped says that stop() has run and start() was not called since.
\* ---------------------------------------------------------------------
MaxStarts == 2

StartCalls == 1..MaxStarts

\* while self.running: the loop goes on or falls out of the while
WhileRunning(running) == IF running THEN "tick" ELSE "ended"

\* start() is called: the coroutine exists and has not run yet
StartCall(k) ==
    /\ loop.calls[k] = "none"
    /\ \A j \in StartCalls : j < k => loop.calls[j] # "none"
    /\ loop' = [loop EXCEPT !.calls[k] = "called", !.stopped = FALSE]
    /\ UNCHANGED <<queueVars, execVars, trig, check, order, states>>

\* line 30 and the first test of the while at line 33
StartRun(k) ==
    /\ loop.calls[k] = "called"
    /\ loop' = [loop EXCEPT !.running = TRUE, !.calls[k] = WhileRunning(TRUE)]
    /\ UNCHANGED <<queueVars, execVars, trig, check, order, states>>

\* lines 34-39: one tick, which may create a task and may raise; either
\* way the loop sleeps check_interval afterwards
Tick(k, raises, dispatch) ==
    /\ loop.calls[k] = "tick"
    /\ dispatch => loop.inflight < MaxJobs
    /\ loop' = [loop EXCEPT !.calls[k] = "sleep",
                            !.inflight = IF dispatch THEN @ + 1 ELSE @,
                            !.failedTicks = @ \/ raises]
    /\ UNCHANGED <<queueVars, execVars, trig, check, order, states>>

\* the sleep is over: line 33 tests running again
Wake(k) ==
    /\ loop.calls[k] = "sleep"
    /\ loop' = [loop EXCEPT !.calls[k] = WhileRunning(loop.running)]
    /\ UNCHANGED <<queueVars, execVars, trig, check, order, states>>

\* lines 41-44
Stop ==
    /\ loop.pc = "loop"
    /\ loop' = [loop EXCEPT !.running = FALSE, !.stopped = TRUE, !.stopEver = TRUE]
    /\ UNCHANGED <<queueVars, execVars, trig, check, order, states>>

\* a task of execute_queued_job finishes
TaskFinish ==
    /\ loop.pc = "loop"
    /\ loop.inflight > 0
    /\ loop' = [loop EXCEPT !.inflight = @ - 1]
    /\ UNCHANGED <<queueVars, execVars, trig, check, order, states>>

InitLoop ==
    /\ QueueAndExecutorIdle
    /\ trig = NoCall
    /\ check = NoCall
    /\ loop = [pc |-> "loop", running |-> FALSE, calls |-> [k \in StartCalls |-> "none"],
               inflight |-> 0, stopped |-> FALSE, stopEver |-> FALSE,
               failedTicks |-> FALSE]
    /\ order = NoCall
    /\ states = NoCall

NextLoop ==
    \/ \E k \in StartCalls : StartCall(k)
    \/ \E k \in StartCalls : StartRun(k)
    \/ \E k \in StartCalls, raises \in BOOLEAN, dispatch \in BOOLEAN : Tick(k, raises, dispatch)
    \/ \E k \in StartCalls : Wake(k)
    \/ Stop
    \/ TaskFinish

SpecLoop == InitLoop /\ [][NextLoop]_vars

\* ---------------------------------------------------------------------
\* The order nodes: MarketOrderNode.execute and ClosePositionNode.execute
\* (nodes/orders.py), called with the context _execute_node builds
\* (engine/executor.py:199-204).  A ticket is a positive integer, 0 stands
\* for a ticket that is not given.  The result records the calls made to
\* the broker that change the account: place_order and close_position.
\* ---------------------------------------------------------------------
SyntheticTicket == 12345678

Tickets == {1, 2}
OrderNodes == {"MarketOrder", "ClosePosition"}

\* the context every node is constructed with
Context(test_mode) == [test_mode |-> test_mode]

OrderResult(success, ticket, simulated, broker) ==
    [success |-> success, ticket |-> ticket, simulated |-> simulated, broker |-> broker]

\* nodes/orders.py:19-106; env.symbol_info is whether mt5.symbol_info knows
\* the symbol, env.accepts whether the broker accepts the request, and
\* env.ticket the ticket the broker gives the new order
MarketOrderExecute(config, input_data, context, env) ==
    IF ~env.symbol_info THEN OrderResult(FALSE, 0, FALSE, {})
    ELSE IF context.test_mode THEN OrderResult(TRUE, SyntheticTicket, TRUE, {})
    ELSE IF ~env.accepts THEN OrderResult(FALSE, 0, FALSE, {"place_order"})
    ELSE OrderResult(TRUE, env.ticket, FALSE, {"place_order"})

\* nodes/orders.py:118-137
ClosePositionExecute(config, input_data, context, env) ==
    LET ticket == IF config.ticket # 0 THEN config.ticket ELSE input_data.ticket IN
    IF ticket = 0 THEN OrderResult(FALSE, 0, FALSE, {})
    ELSE IF ~env.accepts THEN OrderResult(FALSE, 0, FALSE, {"close_position"})
    ELSE OrderResult(TRUE, ticket, FALSE, {"close_position"})

OrderCalls ==
    [node : OrderNodes, test_mode : BOOLEAN,
     config : [ticket : {0} \cup Tickets], input_data : [ticket : {0} \cup Tickets],
     env : [symbol_info : BOOLEAN, accepts : BOOLEAN, ticket : Tickets]]

\* _execute_node constructs the node with the context and runs it
ExecuteOrderNode ==
    /\ order.pc = "called"
    /\ LET c == order.call
           context == Context(c.test_mode)
       IN  order' = [order EXCEPT
               !.pc = "returned",
               !.context = context,
               !.result = IF c.node = "MarketOrder"
                          THEN MarketOrderExecute(c.config, c.input_data, context, c.env)
                          ELSE ClosePositionExecute(c.config, c.input_data, context, c.env)]
    /\ UNCHANGED <<queueVars, execVars, trig, check, loop, states>>

InitOrder ==
    /\ QueueAndExecutorIdle
    /\ trig = NoCall
    /\ check = NoCall
    /\ loop = NoCall
    /\ \E c \in OrderCalls :
          order = [pc |-> "called", call |-> c, context |-> Context(FALSE),
                   result |-> OrderResult(FALSE, 0, FALSE, {})]
    /\ states = NoCall

NextOrder == ExecuteOrderNode

SpecOrder == InitOrder /\ [][NextOrder]_vars

\* ---------------------------------------------------------------------
\* The memory nodes: SetStateNode.execute and GetStateNode.execute
\* (nodes/memory.py) on the table workflow_states of one workflow.
\* states.rows is the table in insertion order, states.set[p] the p-th
\* execution of a SetState node (of any run of the workflow), states.got
\* the result of the last GetState, and states.last[k] the value of the
\* SetState for key k that committed last.
\* ---------------------------------------------------------------------
MaxSetters == 2

Setters == 1..MaxSetters
StateKeys == {"k1", "k2"}
StateValues == {"a", "b"}
DefaultValue == "default"
NoValue == "none"

RowsOf(rows, key) == {n \in DOMAIN rows : rows[n].key = key}

\* Result.scalar_one_or_none(): the row, nothing (0), or MultipleResultsFound
ScalarOneOrNone(rows, key) ==
    LET found == RowsOf(rows, key) IN
    [raised |-> Cardinality(found) > 1,
     state |-> IF Cardinality(found) = 1 THEN CHOOSE n \in found : TRUE ELSE 0]

\* memory.py:30-36: the select of a SetState execution, in its own session
SetStateSelect(p, key, value) ==
    /\ states.pc = "table"
    /\ states.set[p].pc = "ready"
    /\ LET r == ScalarOneOrNone(states.rows, key) IN
       states' = [states EXCEPT
           !.set[p] = [pc |-> IF r.raised THEN "failed" ELSE "selected",
                       key |-> key, value |-> value, state |-> r.state]]
    /\ UNCHANGED <<queueVars, execVars, trig, check, loop, order>>

\* memory.py:38-48: the row found is updated, or a new row is added, and
\* the session commits
SetStateCommit(p) ==
    /\ states.pc = "table"
    /\ states.set[p].pc = "selected"
    /\ LET me == states.set[p] IN
       states' = [states EXCEPT
           !.set[p].pc = "done",
           !.rows = IF me.state # 0
                    THEN [states.rows EXCEPT ![me.state].value = me.value]
                    ELSE Append(states.rows, [key |-> me.key, value |-> me.value]),
           !.last[me.key] = me.value]
    /\ UNCHANGED <<queueVars, execVars, trig, check, loop, order>>

\* memory.py:62-87
GetStateExecute(rows, key) ==
    LET r == ScalarOneOrNone(rows, key) IN
    [key |-> key, raised |-> r.raised,
     value |-> IF r.raised THEN NoValue
               ELSE IF r.state # 0 THEN rows[r.state].value ELSE DefaultValue,
     exists |-> (~r.raised) /\ r.state # 0]

GetState(key) ==
    /\ states.pc = "table"
    /\ states' = [states EXCEPT !.got = GetStateExecute(states.rows, key),
                                !.lastAtGet = states.last[key]]
    /\ UNCHANGED <<queueVars, execVars, trig, check, loop, order>>

InitState ==
    /\ QueueAndExecutorIdle
    /\ trig = NoCall
    /\ check = NoCall
    /\ loop = NoCall
    /\ order = NoCall
    /\ states = [pc |-> "table", rows |-> <<>>,
                 set |-> [p \in Setters |-> [pc |-> "ready", key |-> "k1", value |-> "a",
                                             state |-> 0]],
                 got |-> [key |-> NoValue, raised |-> FALSE, value |-> NoValue,
                          exists |-> FALSE],
                 lastAtGet |-> NoValue,
                 last |-> [k \in StateKeys |-> NoValue]]

NextState ==
    \/ \E p \in Setters, key \in StateKeys, value \in StateValues : SetStateSelect(p, key, value)
    \/ \E p \in Setters : SetStateCommit(p)
    \/ \E key \in StateKeys : GetState(key)

SpecState == InitState /\ [][NextState]_vars

\* ---------------------------------------------------------------------
\* Claims C21 and C23, about one call of should_execute (SpecTrig)
\* ---------------------------------------------------------------------
IsOccurrence(expr, t) == t % expr.every = expr.at

CronWithLastRun ==
    /\ trig.pc = "returned"
    /\ trig.job.trigger_type = "cron"
    /\ "cron_expression" \in trig.job.trigger_config.keys
    /\ trig.job.trigger_config.cron_expression.valid
    /\ trig.job.last_run # 0

\* C21: for a cron schedule with a valid expression and last_run set, the
\* evaluator leaves next_run at the first occurrence of the expression that
\* is strictly after last_run, and it reports due exactly when now is at or
\* after that occurrence; with the daily expression and last_run at
\* yesterday's occurrence it is due one unit after today's occurrence and
\* not due one unit before it.
C21_CronDue ==
    CronWithLastRun =>
        LET expr == trig.job.trigger_config.cron_expression
            next_run == trig.result.next_run
        IN  /\ next_run > trig.job.last_run
            /\ IsOccurrence(expr, next_run)
            /\ \A t \in (trig.job.last_run + 1)..(next_run - 1) : ~IsOccurrence(expr, t)
            /\ trig.result.due <=> (trig.now >= next_run)
            /\ (expr = Daily9 /\ trig.job.last_run = 1 /\ trig.now = DayLen + 2)
                   => trig.result.due
            /\ (expr = Daily9 /\ trig.job.last_run = 1 /\ trig.now = DayLen)
                   => ~trig.result.due

PriceReturned ==
    /\ trig.pc = "returned"
    /\ trig.job.trigger_type = "price"
    /\ trig.job.trigger_config.keys # {}

\* C23: the result of the price trigger depends only on the current price,
\* the operator and the threshold parsed from the condition: it is the
\* comparison when the condition is "price OP threshold" with OP one of
\* >, <, >=, <=, == and a price is available, it is not-due for every other
\* condition string, and the call has no effect besides its result.
C23_ComparatorOnly ==
    PriceReturned =>
        LET keys == trig.job.trigger_config.keys
            condition == IF "condition" \in keys THEN trig.job.trigger_config.condition
                         ELSE EmptyCondition
            parsed == condition.form = "triple" /\ condition.op \in ComparisonOps
        IN  /\ ~trig.result.effect
            /\ ~parsed => ~trig.result.due
            /\ parsed =>
                  (trig.result.due <=>
                       /\ trig.market.status = "ok"
                       /\ Compare(trig.market.bid, condition.op, condition.threshold))

\* ---------------------------------------------------------------------
\* Claims C22 and C24 to C26 and C28, about the ticks of the loop (SpecTick)
\* ---------------------------------------------------------------------
IntervalOf(s) == check.rows[s].trigger_config.interval_minutes

TimeSchedule(s) ==
    /\ check.rows[s].trigger_type = "time"
    /\ "interval_minutes" \in check.rows[s].trigger_config.keys

C22_Evaluator ==
    \A s \in SchedIds :
        (check.lastEval.job = s /\ TimeSchedule(s)) =>
            (check.lastEval.due <=>
                \/ check.lastEval.last_run = 0
                \/ check.lastEval.now >= check.lastEval.last_run + IntervalOf(s))

C22_Enqueue ==
    \A s \in SchedIds :
        (TimeSchedule(s) /\ check'.enqueuedAt[s] # check.enqueuedAt[s]) =>
            /\ check'.rows[s].last_run = check'.now
            /\ check'.enqueuedAt[s] = check'.now
            /\ check.enqueuedAt[s] # 0
                  => check'.enqueuedAt[s] >= check.enqueuedAt[s] + IntervalOf(s)

\* C22: a time schedule with interval_minutes configured is reported due
\* exactly when its last_run is unset or now is at least last_run plus the
\* interval; an enqueue sets last_run to now, and two enqueues of the same
\* schedule are at least the interval apart.
C22_IntervalDue == [](C22_Evaluator) /\ [][C22_Enqueue]_vars

OtherType(s) == check.rows[s].trigger_type \notin {"cron", "price", "time"}

C24_NotDue ==
    \A s \in SchedIds :
        OtherType(s) =>
            /\ s \notin check.due
            /\ s \notin check.called
            /\ s \notin check.enqueued
            /\ check.queue[s] = "none"
            /\ check.lastEval.job = s => ~check.lastEval.due

C24_Untouched ==
    \A s \in SchedIds :
        OtherType(s) =>
            /\ check'.rows[s].last_run = check.rows[s].last_run
            /\ check'.rows[s].run_count = check.rows[s].run_count

\* C24: a schedule whose trigger_type is not cron, price or time (indicator,
\* webhook, manual, anything else) is never reported due by a tick, so no
\* tick calls queue_job for it, no queue row or task of its workflow comes
\* from the loop, and no step changes its last_run or run_count.
C24_OtherTypesNeverDue == [](C24_NotDue) /\ [][C24_Untouched]_vars

\* a tick has ended in which such a schedule was evaluated and the other
\* schedule was enqueued
C24_Witness ==
    /\ check.pc = "sleep"
    /\ \E s \in SchedIds :
          /\ OtherType(s)
          /\ check.rows[s].trigger_type = "indicator"
          /\ s \in check.evaluated
          /\ check.enqueued = SchedIds \ {s}

\* C25: in a tick, queue_job is called exactly for the schedules whose
\* evaluation in that tick reported due, only schedules that were active
\* when the tick loaded them are evaluated or enqueued, and a tick whose
\* load succeeded has evaluated every one of them when it ends.
C25_EnqueueExactlyDue ==
    /\ check.called = check.due
    /\ check.enqueued \subseteq check.called
    /\ check.evaluated \subseteq check.activeAtLoad
    /\ check.called \subseteq check.evaluated
    /\ check.lastEval.job # 0 =>
          /\ check.lastEval.job \in check.evaluated
          /\ check.lastEval.due <=> check.lastEval.job \in check.called
    /\ (check.pc = "sleep" /\ ~check.loadFailed) => check.evaluated = check.activeAtLoad

\* a tick over two active cron schedules has ended with one call of queue_job
C25_Witness ==
    /\ check.pc = "sleep"
    /\ check.activeAtLoad = SchedIds
    /\ check.evaluated = SchedIds
    /\ \A s \in SchedIds : check.rows[s].trigger_type = "cron"
    /\ Cardinality(check.called) = 1

C26_OwnErrorOnly ==
    /\ check.poisoned = {}
    /\ check.errored \cap check.enqueued = {}
    /\ (check.pc = "sleep" /\ ~check.loadFailed) => check.evaluated = check.activeAtLoad

C26_RowUntouched ==
    \A s \in SchedIds :
        (s \in check'.errored /\ s \notin check.errored) =>
            /\ check'.rows[s].last_run = check.rows[s].last_run
            /\ check'.rows[s].run_count = check.rows[s].run_count

\* C26: an error while a schedule is evaluated or enqueued keeps that
\* schedule from being enqueued in the current tick and leaves its last_run
\* and run_count as they were, and it never is the reason why another
\* schedule of the same tick is not evaluated or not enqueued.
C26_ErrorsIsolated == [](C26_OwnErrorOnly) /\ [][C26_RowUntouched]_vars

SlowTask == \E s \in SchedIds : check.queue[s] = "active"

C27_EndsOnlyOnStop ==
    /\ (\E k \in StartCalls : loop.calls[k] = "ended") => loop.stopEver
    /\ loop.inflight > 0 => ENABLED TaskFinish

C27_NoTickAfterStop ==
    \A k \in StartCalls :
        (loop.stopped /\ loop'.stopped /\ loop.calls[k] # "tick") => loop'.calls[k] # "tick"

\* C27: a loop ends only after stop() has been called, a failing tick does
\* not end it; once stop() has been called, and start() not again, no tick
\* starts, however the calls of start() and stop() interleave; and a task
\* in flight can always run on to its end.
C27_LoopUntilStop == [](C27_EndsOnlyOnStop) /\ [][C27_NoTickAfterStop]_vars

\* ---------------------------------------------------------------------
\* Claim C29, about the order nodes in test mode (SpecOrder)
\* ---------------------------------------------------------------------
\* C29: in a run with test_mode = true the context of the node holds the
\* flag, an order node makes no call to the broker that places or closes
\* anything, and when it succeeds its result is the simulated one (for the
\* market order: the synthetic ticket).
C29_TestModeSimulates ==
    (order.pc = "returned" /\ order.call.test_mode) =>
        /\ order.context.test_mode
        /\ order.result.broker = {}
        /\ order.result.success => order.result.simulated
        /\ (order.result.success /\ order.call.node = "MarketOrder")
               => order.result.ticket = SyntheticTicket

\* ---------------------------------------------------------------------
\* Claim C30, about the memory nodes (SpecState)
\* ---------------------------------------------------------------------
\* C30: the table holds at most one row for each key of the workflow,
\* however SetState executions interleave, and a GetState returns the value
\* of the SetState for its key that committed last, or the default with
\* exists = false when none has committed.
C30_OneRowLastWriterWins ==
    /\ \A key \in StateKeys : Cardinality(RowsOf(states.rows, key)) <= 1
    /\ states.got.key # NoValue =>
          /\ ~states.got.raised
          /\ states.got.exists <=> states.lastAtGet # NoValue
          /\ states.got.value = IF states.lastAtGet # NoValue THEN states.lastAtGet
                                ELSE DefaultValue

\* ------------------------------------------------------------------------
\* Claims C33 and C34 (SpecExec)
\* ------------------------------------------------------------------------
RunningLogs == {k \in DOMAIN logs : logs[k].status = "running"}
Finalized(k) == logs[k].status \in {"completed", "failed"}

\* C33: node execution within one run is sequential: in every reachable
\* state at most one log row of the execution has status running, and a log
\* row is created only when every row created before it is finalized.
C33_OneRunning == Cardinality(RunningLogs) <= 1

C33_CreatedAfterFinalized == LogCreated => \A k \in DOMAIN logs : Finalized(k)

C33_Sequential == [](C33_OneRunning) /\ [][C33_CreatedAfterFinalized]_vars

\* the second node's row is running and the first node's row is finalized
C33_Witness ==
    /\ Len(logs) >= 2
    /\ logs[Len(logs)].status = "running"
    /\ \A k \in 1..(Len(logs) - 1) : Finalized(k)

\* the rows before row k whose node returned success
CompletedBefore(k) == {m \in 1..(k - 1) : logs[m].status = "completed"}
LastCompletedBefore(k) == CHOOSE m \in CompletedBefore(k) : \A o \in CompletedBefore(k) : o <= m
\* the output of the most recent earlier node whose run succeeded
LastSuccessOutput(k) ==
    IF CompletedBefore(k) = {} THEN EmptyDict ELSE logs[LastCompletedBefore(k)].output_data

EdgeSets == SubsetsUpTo(ConnectionsOn(NodeCount), MaxEdges)

\* C34: the run order, the inputs and the logs depend on the nodes array and
\* the nodes' results only: whatever the edge set (cyclic ones included) the
\* order is the nodes array, the k-th node invoked and the k-th log row are
\* the k-th node of the array, and a row's input is the output of the last
\* earlier row that completed.
C34_OrderIgnoresEdges ==
    \A c \in EdgeSets : BuildExecutionOrder(wf.nodes, c) = wf.nodes

C34_ArrayOrder ==
    /\ \A k \in DOMAIN logs : logs[k].node_id = wf.nodes[k].id
    /\ \A k \in DOMAIN ex.invoked : ex.invoked[k] = wf.nodes[k].id
    /\ \A k \in DOMAIN logs : logs[k].input_data = LastSuccessOutput(k)

MaxChain == 4

\* the ids of an array of n nodes: all different, or one node carrying the
\* id of an earlier node
IdArrays(n) ==
    {[i \in 1..n |-> i]}
    \cup {[i \in 1..n |-> IF i = p THEN q ELSE i] : p \in 1..n, q \in 1..n}

ChainRows ==
    UNION {{[nodes |-> [i \in 1..n |-> [id |-> ids[i],
                                        type |-> IF i = u THEN UnknownType
                                                 ELSE RegisteredType]],
             connections |-> {}] :
                u \in 0..n, ids \in {a \in IdArrays(n) : \A i \in 1..n : a[i] <= i}} :
           n \in 0..MaxChain}

InitChain ==
    /\ jobs = <<>>
    /\ sched = [s \in SchedIds |-> [workflow_id |-> SchedWorkflow(s),
                                    user_id |-> OwnerOf(SchedWorkflow(s)),
                                    last_run |-> FALSE, run_count |-> 0]]
    /\ execs = <<>>
    /\ task = [j \in JobIds |-> IdleTask]
    /\ tick = IdleTick
    /\ req = {}
    /\ resp = None
    /\ cancelledEver = {}
    /\ workflows = Workflows
    /\ wf \in ChainRows
    /\ executionRow = NoExecution
    /\ logs = <<>>
    /\ ex = [IdleExecutor EXCEPT !.pc = "start"]
    /\ OthersIdle

SpecChain == InitChain /\ [][NextExec]_vars

\* C36: nodes are invoked in the order of the nodes array and the input of
\* each node is the output of the most recent earlier node of that order
\* whose run succeeded (empty when there is none), also for a node placed
\* after a failed node.
C36_ChainedToLastSuccess ==
    /\ \A k \in DOMAIN ex.invoked : ex.invoked[k] = wf.nodes[k].id
    /\ \A k \in DOMAIN logs :
          /\ logs[k].node_id = wf.nodes[k].id
          /\ logs[k].input_data = LastSuccessOutput(k)

\* ------------------------------------------------------------------------
\* Claim C35 (SpecTick).  An evaluation of the model reads the clock once:
\* check.now is both the base of the iteration (scheduler.py:88) and the
\* left side of the comparison (scheduler.py:96).
\* ------------------------------------------------------------------------
NeverRunCron(s) ==
    /\ check.rows[s].trigger_type = "cron"
    /\ check.rows[s].last_run = 0

C35_NotDue ==
    \A s \in SchedIds :
        NeverRunCron(s) =>
            /\ s \notin check.due
            /\ s \notin check.enqueued
            /\ check.enqueuedAt[s] = 0
            /\ check.queue[s] = "none"
            /\ (check.lastEval.job = s /\ check.rows[s].trigger_config.cron_expression.valid)
                  => /\ ~check.lastEval.due
                     /\ check.objs[s].next_run > check.lastEval.now

C35_StaysUnset ==
    \A s \in SchedIds : NeverRunCron(s) => check'.rows[s].last_run = 0

\* C35: a cron schedule whose last_run is unset is never reported due by an
\* evaluation that reads the clock once: next_run is computed from now and
\* is later than now; its last_run stays unset, and no tick of the
\* scheduler loop enqueues it.
C35_NeverRunCronNeverDue == [](C35_NotDue) /\ [][C35_StaysUnset]_vars

\* a tick later than the first has ended in which a cron schedule that never
\* ran was evaluated and not enqueued while the other schedule was enqueued
C35_Witness ==
    /\ check.pc = "sleep" /\ check.now >= 2
    /\ \E s \in SchedIds :
          /\ NeverRunCron(s)
          /\ check.rows[s].trigger_config.cron_expression.valid
          /\ s \in check.evaluated
          /\ check.objs[s].next_run > check.now
          /\ check.enqueued = SchedIds \ {s}

\* ------------------------------------------------------------------------
\* Claim C39 (Spec)
\* ------------------------------------------------------------------------
RetryCount(j) == jobs[j].retry_count

C39_Bounded ==
    \A j \in DOMAIN jobs : jobs[j].max_retries >= 1 => RetryCount(j) <= jobs[j].max_retries

\* the step is the commit of the failure handler of j's dispatch
HandlerCommitted(j) ==
    /\ task[j].pc \in {"invoke", "executing"}
    /\ task'[j].pc \in {"sleep", "done"}
    /\ jobs'[j].status = "failed"

\* the step is the commit of a retry_job request on j
RetryCommitted(j) ==
    /\ \E r \in req : r.kind = "retry" /\ r.id = j
    /\ resp' = "ok"
    /\ jobs'[j].status = "pending"

\* the step is the commit of j's dispatch after the executor returned
\* a completed execution
CompletedCommitted(j) ==
    /\ task[j].pc = "executing"
    /\ task'[j].pc = "done"
    /\ execs'[task[j].execution].status = "completed"

C39_Changes ==
    \A j \in DOMAIN jobs :
        /\ jobs'[j].retry_count # RetryCount(j)
              => \/ jobs'[j].retry_count = RetryCount(j) + 1 /\ HandlerCommitted(j)
                 \/ jobs'[j].retry_count = 0 /\ RetryCommitted(j)
        /\ HandlerCommitted(j) => jobs'[j].retry_count = RetryCount(j) + 1
        /\ CompletedCommitted(j) => jobs'[j].retry_count = RetryCount(j)

\* C39: for every queue entry with max_retries >= 1, retry_count never
\* exceeds max_retries; a step changes retry_count only by +1, when a
\* dispatch of the entry ends in the failure handler, or to 0, when
\* retry_job commits; a dispatch that ends completed leaves it unchanged.
C39_RetryCount == [](C39_Bounded) /\ [][C39_Changes]_vars

\* a retry_job request has committed, an entry is failed with the count
\* the handler gave it, and a retry request has loaded that entry
C39_Witness ==
    \E j \in DOMAIN jobs :
        /\ jobs[j].status = "failed" /\ RetryCount(j) = 1
        /\ resp = "ok" /\ j \notin cancelledEver /\ cancelledEver = {}
        /\ \E r \in req : r.kind = "retry" /\ r.id = j

\* ------------------------------------------------------------------------
\* Claim C32 (Spec)
\* ------------------------------------------------------------------------
\* the step is the commit of a cancel_job request on the running entry j
RunningCancelled(j) ==
    /\ StatusOf(j) = "running"
    /\ jobs'[j].status = "cancelled"

C32_OnlyTheEntry ==
    \A j \in DOMAIN jobs :
        RunningCancelled(j) =>
            /\ execs' = execs
            /\ task' = task
            /\ sched' = sched
            /\ tick' = tick
            /\ \A k \in DOMAIN jobs : k # j => jobs'[k] = jobs[k]
            /\ \A f \in DOMAIN jobs[j] :
                  f \notin {"status", "completed_at"} => jobs'[j][f] = jobs[j][f]

\* whatever the entry's status, the execution its dispatch started is
\* running until the executor ends it, and the executor can end it with
\* either result
C32_ExecutionGoesOn ==
    \A j \in DOMAIN jobs :
        task[j].pc = "executing" =>
            /\ execs[task[j].execution].status = "running"
            /\ StatusOf(j) = "cancelled" =>
                  /\ ENABLED DispatchExecutorDone(j, TRUE)
                  /\ ENABLED DispatchExecutorDone(j, FALSE)

\* C32: cancel_job on a running entry changes only that queue entry (its
\* status and completed_at): the execution in flight is not interrupted, it
\* stays running until the executor ends it, and the executor ends it
\* completed or failed as it would without the cancel.
C32_CancelLeavesExecution == [](C32_ExecutionGoesOn) /\ [][C32_OnlyTheEntry]_vars

\* an entry was cancelled while its execution is in flight
C32_Witness ==
    \E j \in DOMAIN jobs :
        /\ StatusOf(j) = "cancelled"
        /\ task[j].pc = "executing"
        /\ execs[task[j].execution].status = "running"

\* ------------------------------------------------------------------------
\* delete_workflow (routers/workflows.py:131-153) beside the queue
\* (SpecDelete).
\*
\* The backend is one that does not enforce foreign keys (SQLite as
\* database.py opens it: no PRAGMA foreign_keys), so the schedules and the
\* queue entries of a deleted workflow stay; the executions are deleted by
\* the relationship's cascade (models.py:28).  On a backend that enforces
\* ON DELETE CASCADE (models.py:75, 96) the queue entries go with the
\* workflow and there is no entry left to dispatch.  A delete while an
\* execution of the workflow is in flight is not part of this specification,
\* nor is cancel_job.
\* ------------------------------------------------------------------------
DeletedExecution(row) == [row EXCEPT !.status = "deleted"]

DeleteWorkflow(w, u) ==
    /\ OwnerOf(w) = u
    /\ w \in workflows
    /\ RunningExecs(w) = {}
    /\ workflows' = workflows \ {w}
    /\ execs' = [e \in DOMAIN execs |->
                    IF execs[e].workflow_id = w THEN DeletedExecution(execs[e])
                    ELSE execs[e]]
    /\ UNCHANGED <<jobs, sched, task, tick, req, resp, cancelledEver>>

NextDelete ==
    \/ \E s \in SchedIds : QueueJobSelect(s) /\ UNCHANGED <<execVars, otherVars, workflows>>
    \/ QueueJobCommit /\ UNCHANGED <<execVars, otherVars, workflows>>
    \/ \E j \in JobIds : DispatchRead(j) /\ UNCHANGED <<execVars, otherVars, workflows>>
    \/ \E j \in JobIds : DispatchCommitRunning(j) /\ UNCHANGED <<execVars, otherVars, workflows>>
    \/ \E j \in JobIds : DispatchInvoke(j) /\ UNCHANGED <<execVars, otherVars, workflows>>
    \/ \E j \in JobIds, ok \in BOOLEAN : DispatchExecutorDone(j, ok) /\ UNCHANGED <<execVars, otherVars, workflows>>
    \/ \E id \in JobIds, u \in Users : RetryRead(id, u) /\ UNCHANGED <<execVars, otherVars, workflows>>
    \/ \E r \in req, last \in BOOLEAN : RetryCommit(r, last) /\ UNCHANGED <<execVars, otherVars, workflows>>
    \/ \E w \in Workflows, u \in Users : DeleteWorkflow(w, u) /\ UNCHANGED <<execVars, otherVars>>

SpecDelete == Init /\ [][NextDelete]_vars

\* the step is the load of the workflow by j's dispatch, and the row is gone
WorkflowNotFound(j) ==
    /\ task[j].pc = "invoke"
    /\ task'[j].pc # "invoke"
    /\ task[j].job.workflow_id \notin workflows

\* the row the failure handler stores when the executor raised "node error"
AfterExecutionFailure(j) ==
    Flush(jobs[j], task[j].job, MarkFailed(task[j].job, "node error"), {"completed_at"})

C31_Failed ==
    \A j \in DOMAIN jobs :
        WorkflowNotFound(j) =>
            /\ execs' = execs
            /\ jobs'[j].status = "failed"
            /\ jobs'[j].error_message = "Workflow not found"
            /\ jobs'[j].retry_count = jobs[j].retry_count + 1
            /\ jobs'[j] = [AfterExecutionFailure(j) EXCEPT !.error_message = "Workflow not found"]
            /\ task'[j].pc = IF jobs'[j].retry_count < jobs'[j].max_retries
                             THEN "sleep" ELSE "done"

\* C31: when the dispatch of an entry cannot load the entry's workflow, no
\* WorkflowExecution is created and the entry is stored failed with
\* error_message set and retry_count one higher; the row and the task's next
\* step (sleep and re-dispatch while retry_count < max_retries) are the ones
\* the failure handler gives an entry whose execution failed.
C31_MissingWorkflowFails == [][C31_Failed]_vars

\* an entry of a deleted workflow was dispatched and has failed without an
\* execution, and its task sleeps before the re-dispatch
C31_Witness ==
    \E j \in DOMAIN jobs :
        /\ jobs[j].workflow_id \notin workflows
        /\ StatusOf(j) = "failed"
        /\ jobs[j].error_message = "Workflow not found"
        /\ jobs[j].retry_count = 1
        /\ ExecsOf(j) = {}
        /\ task[j].pc = "sleep"

\* ------------------------------------------------------------------------
\* Claim C38: termination of a run (SpecExecFair).  execute is a coroutine
\* the event loop keeps running, and every node call and every database
\* call returns or raises: whenever a step of the run is possible, one is
\* eventually taken.
\* ------------------------------------------------------------------------
SpecExecFair == InitExec /\ [][NextExec]_vars /\ WF_vars(NextExec)

\* C38: every WorkflowExecution that is created eventually reaches completed
\* or failed: no execution stays running forever.  (The queue entry of a
\* dispatch leaves running only after the executor has returned or raised.)
C38_ExecutionEnds ==
    (executionRow.status = "running") ~> (executionRow.status \in {"completed", "failed"})

\* ------------------------------------------------------------------------
\* Claim C37: progress of the queue (SpecLive).  The event loop runs every
\* task that can run: the scheduler loop goes on ticking, a dispatch task
\* takes its next step, and a request that has loaded its row commits.
\* Nobody is obliged to send a request.
\* ------------------------------------------------------------------------
DispatchStep(j) ==
    \/ DispatchRead(j)
    \/ DispatchCommitRunning(j)
    \/ DispatchInvoke(j)
    \/ \E ok \in BOOLEAN : DispatchExecutorDone(j, ok)

QueueJobStep ==
    \/ \E s \in SchedIds : QueueJobSelect(s)
    \/ QueueJobCommit

RequestCommit ==
    \E r \in req : CancelCommit(r, TRUE) \/ RetryCommit(r, TRUE)

NextLive ==
    \/ QueueJobStep /\ UNCHANGED <<execVars, otherVars, workflows>>
    \/ \E j \in JobIds : DispatchStep(j) /\ UNCHANGED <<execVars, otherVars, workflows>>
    \/ \E id \in JobIds, u \in Users : CancelRead(id, u) /\ UNCHANGED <<execVars, otherVars, workflows>>
    \/ \E id \in JobIds, u \in Users : RetryRead(id, u) /\ UNCHANGED <<execVars, otherVars, workflows>>
    \/ RequestCommit /\ UNCHANGED <<execVars, otherVars, workflows>>

SpecLive ==
    /\ Init
    /\ [][NextLive]_vars
    /\ WF_vars(QueueJobStep /\ UNCHANGED <<execVars, otherVars, workflows>>)
    /\ \A j \in JobIds : WF_vars(DispatchStep(j) /\ UNCHANGED <<execVars, otherVars, workflows>>)
    /\ WF_vars(RequestCommit /\ UNCHANGED <<execVars, otherVars, workflows>>)

\* entry j is pending and the task its enqueue created has already taken
\* it: only retry_job stores pending again
RetriedPending(j) ==
    /\ j \in DOMAIN jobs
    /\ StatusOf(j) = "pending"
    /\ task[j].pc \in {"sleep", "done"}

DispatchedOrCancelled(j) ==
    j \in DOMAIN jobs /\ StatusOf(j) \in {"running", "cancelled"}

\* C37: a queue entry that retry_job returned to pending is eventually
\* dispatched (reaches running) unless it is cancelled: it does not stay
\* pending forever.
C37_RetriedIsDispatched ==
    \A j \in JobIds : [](RetriedPending(j) => <>DispatchedOrCancelled(j))

====
